---- MODULE Spec2Model ----
(***************************************************************************)
(* A state-machine model of the peer-to-peer message-processing engine of  *)
(* src/net_processing.cpp (PeerManagerImpl): per-peer state, the handlers  *)
(* of ProcessMessage, the periodic SendMessages work, the block in-flight  *)
(* bookkeeping, misbehavior scoring and address rate limiting.             *)
(*                                                                         *)
(* Variables carry the names of the fields they model.  Fields of Peer,    *)
(* CNodeState and CNode are functions over NodeIds; a peer that is not in  *)
(* `nodes` holds the values its constructor gives it.  Every operation of  *)
(* the engine is one action; an operation that is called from inside       *)
(* another one is an operator that computes the new value of the state it  *)
(* touches (XxxIn), which the calling action assigns.                      *)
(*                                                                         *)
(* The model is checked as several specifications, one per subsystem; they *)
(* share the state and the actions and differ in the connections and the   *)
(* messages the environment produces.                                      *)
(***************************************************************************)
EXTENDS Integers, Sequences, FiniteSets, TLC

\* ------------------------------------------------------------------ bounds
MaxPeers == 4        \* NodeIds are 1..MaxPeers
NumBlocks == 2       \* block hashes are 1..NumBlocks
MaxTime == 2         \* block-download model: the clock stops here
NumTxs == 2          \* transactions are 1..NumTxs
NumElements == 3     \* GCS filter: the elements are 1..NumElements
MaxAttempts == 3     \* AddrMan: failed attempts counted for an address
DownloadWindow == 1  \* BLOCK_DOWNLOAD_WINDOW (1024 blocks) on the scale of NumBlocks
MaxAddrProcessed == 2002  \* no addr message lifts m_addr_processed above this
MaxAddrTime == 10002 \* address model: the clock stops here
MaxUnconnecting == 20 \* no message lifts nUnconnectingHeaders above this
TipWork == 4         \* headers model: nChainWork of the active tip
TipProof == 1        \* headers model: GetBlockProof of the active tip
nMinimumChainWork == 3  \* headers model: the configured minimum chain work
MaxScore == 120      \* misbehavior model: no Misbehaving call lifts a score above this

NodeIds == 1..MaxPeers
Hashes == 1..NumBlocks
Txs == 1..NumTxs
NoNode == 0          \* "no peer": mapBlocksInFlight.find(hash) == end()

\* the node ids the connections of each model take
BlkNodes == {1, 2}
MisbNodes == {1, 2}

\* --------------------------------------------------------------- constants
DISCOURAGEMENT_THRESHOLD == 100

\* protocol versions (version.h)
PROTOCOL_VERSION == 70016
MIN_PEER_PROTO_VERSION == 31800
SHORT_IDS_BLOCKS_VERSION == 70014
WTXID_RELAY_VERSION == 70016
SENDHEADERS_VERSION == 70012
FEEFILTER_VERSION == 70013
BIP0031_VERSION == 60000

CMPCTBLOCKS_VERSION == 2

\* times are in seconds
nPowTargetSpacing == 600
BLOCK_STALLING_TIMEOUT == 2
HEADERS_RESPONSE_TIME == 120
CHAIN_SYNC_TIMEOUT == 1200
HEADERS_DOWNLOAD_TIMEOUT_BASE == 900

MAX_OUTBOUND_PEERS_TO_PROTECT_FROM_DISCONNECT == 4
MAX_BLOCKS_IN_TRANSIT_PER_PEER == 16
MAX_HEADERS_RESULTS == 2000
MAX_BLOCKS_TO_ANNOUNCE == 8
MAX_UNCONNECTING_HEADERS == 10
MAX_INV_SZ == 50000

\* transaction requests, times in seconds
MAX_PEER_TX_REQUEST_IN_FLIGHT == 100
MAX_PEER_TX_ANNOUNCEMENTS == 5000
TXID_RELAY_DELAY == 2
NONPREF_PEER_TX_DELAY == 2
OVERLOADED_PEER_TX_DELAY == 2
GETDATA_TX_INTERVAL == 60

\* address rate limiting.  m_addr_token_bucket is a double; the model keeps
\* it in units of 1/TokenUnit token, so that MAX_ADDR_RATE_PER_SECOND{0.1}
\* is one unit per second and every value the code computes at whole seconds
\* is an integer number of units.
TokenUnit == 10
MAX_ADDR_TO_SEND == 1000
ADDRMAN_NEW_BUCKETS_PER_ADDRESS == 8
MAX_ADDR_PROCESSING_TOKEN_BUCKET == 1000

\* service flags (NODE_NETWORK, NODE_WITNESS, ...) are sets of names
CanServeBlocksOf(services) == services \cap {"NETWORK", "NETWORK_LIMITED"} # {}
HasAllDesirableServiceFlags(services) == {"NETWORK", "WITNESS"} \subseteq services

\* the network addresses of the model; pnode.addr.IsLocal() holds of LocalAddrs
Addrs == {"local", "remote"}
LocalAddrs == {"local"}
IsLocal(a) == a \in LocalAddrs

\* ConnectionType (CNode::m_conn_type)
ConnTypes == {"inbound", "outbound_full_relay", "manual", "feeler",
              "block_relay", "addr_fetch"}

\* what CConnman knows of a connection: its type, its permission flags
\* (NetPermissionFlags::NoBan, ::Addr), its address
Conn(t, noban, addrperm, a) ==
    [conn_type |-> t, noban |-> noban, addr_perm |-> addrperm, addr |-> a]
NoConn == Conn("none", FALSE, FALSE, "none")

IsInboundConn(c) == c.conn_type = "inbound"
IsManualConn(c) == c.conn_type = "manual"
IsFeelerConn(c) == c.conn_type = "feeler"
IsFullOutboundConn(c) == c.conn_type = "outbound_full_relay"
IsOutboundOrBlockRelayConn(c) == c.conn_type \in {"outbound_full_relay", "block_relay"}
IsBlockOnlyConn(c) == c.conn_type = "block_relay"
IsAddrFetchConn(c) == c.conn_type = "addr_fetch"
ExpectServicesFromConn(c) ==
    c.conn_type \in {"outbound_full_relay", "block_relay", "addr_fetch"}

\* ------------------------------------------------------------------- state
VARIABLES
    \* the clock: GetTime<microseconds>() / NodeClock::now(), in seconds
    now,
    \* m_peer_map / m_node_states: the ids of the connected peers
    nodes,
    cnode,                      \* NodeId -> the CNode's connection data
    fDisconnect,                \* NodeId -> CNode::fDisconnect
    \* version handshake and feature negotiation (CNode, Peer, CNodeState)
    nVersion,                   \* NodeId -> CNode::nVersion, 0 before VERSION
    fSuccessfullyConnected,     \* NodeId -> bool, set by VERACK
    m_their_services,           \* NodeId -> set of service flags
    fPreferHeaders,             \* NodeId -> bool
    m_provides_cmpctblocks,     \* NodeId -> bool
    m_requested_hb_cmpctblocks, \* NodeId -> bool
    m_wtxid_relay,              \* NodeId -> bool
    m_wtxid_relay_peers,        \* int
    m_wants_addrv2,             \* NodeId -> bool
    fPreferredDownload,         \* NodeId -> bool
    m_num_preferred_download_peers, \* int
    \* address relay (Peer)
    m_addr_relay_enabled,       \* NodeId -> bool
    m_getaddr_sent,             \* NodeId -> bool
    m_addr_token_bucket,        \* NodeId -> tokens, in units of 1/TokenUnit
    m_addr_token_timestamp,     \* NodeId -> time
    m_addr_processed,           \* NodeId -> int
    \* headers synchronization (Peer, CNodeState, PeerManagerImpl)
    m_last_getheaders_timestamp, \* NodeId -> time, 0 when cleared
    m_headers_sync,             \* NodeId -> the HeadersSyncState, NoSync when null
    nUnconnectingHeaders,       \* NodeId -> int
    fSyncStarted,               \* NodeId -> bool
    nSyncStarted,               \* int
    m_headers_sync_timeout,     \* NodeId -> time; NoTimeout is microseconds::max()
    pindexBestKnownBlock,       \* NodeId -> its nChainWork, NoBlock when nullptr
    m_chain_sync,               \* NodeId -> ChainSyncTimeoutState
    m_outbound_peers_with_protect_from_disconnect, \* int
    m_inv_triggered_getheaders_before_sync, \* NodeId -> bool
    m_last_block_inv_triggering_headers_sync, \* hash, 0 when null
    \* the node's chain and its loading state
    fImporting,                 \* fImporting || fReindex
    ibd,                        \* ActiveChainstate().IsInitialBlockDownload()
    best_header_recent,         \* m_best_header->Time() > GetAdjustedTime() - 24h
    \* misbehavior (Peer) and the ban manager
    m_misbehavior_score,        \* NodeId -> int
    m_should_discourage,        \* NodeId -> bool
    m_banman,                   \* whether a BanMan is configured (m_banman != nullptr)
    discouraged,                \* the addresses BanMan::Discourage was called with
    \* block download bookkeeping (PeerManagerImpl and CNodeState)
    mapBlocksInFlight,          \* hash -> NodeId, NoNode when absent
    vBlocksInFlight,            \* NodeId -> sequence of hashes (the QueuedBlock list)
    nBlocksInFlight,            \* NodeId -> int
    m_downloading_since,        \* NodeId -> time
    m_stalling_since,           \* NodeId -> time, 0 when not stalling
    m_peers_downloading_from,   \* int
    \* the peers asked to announce blocks with compact blocks (PeerManagerImpl)
    lNodesAnnouncingHeaderAndIDs,   \* sequence of NodeIds, the front first
    \* block download scheduling (the block index and CNodeState)
    nStatus,                    \* hash -> "none" (not in the index), "tree" or "data"
    pindexLastCommonBlock,      \* NodeId -> its height above the tip, NoBlock when nullptr
    \* what SendMessages announces and requests (Peer, CNodeState, TxRelay)
    m_addrs_to_send,            \* NodeId -> sequence of addresses
    m_getaddr_recvd,            \* NodeId -> bool
    m_sent_sendheaders,         \* NodeId -> bool
    m_blocks_for_headers_relay, \* NodeId -> sequence of blocks of the active chain
    m_blocks_for_inv_relay,     \* NodeId -> sequence of blocks of the active chain
    pindexBestHeaderSent,       \* NodeId -> the block, NoBlock when nullptr
    m_tx_inventory_to_send,     \* NodeId -> set of transactions
    m_fee_filter_sent,          \* NodeId -> the fee rate last sent, "0" at first
    m_txrequest,                \* the TxRequestTracker: a set of announcements
    m_getdata_requests,         \* NodeId -> sequence of inventory items
    m_best_height,              \* the height of the tip above the one at start
    \* history: the operation the last step performed and what it returned,
    \* and the messages it handed to CConnman::PushMessage, in order
    last,
    pushed,
    \* history: an observation window per peer, the time it started and the
    \* number of addresses counted in m_addr_processed since
    win_start,
    win_count,
    \* history: per peer, the time of the last getheaders pushed to it and
    \* whether no headers message has been received from it since
    gh_time,
    gh_open,
    \* history: the headers the last step gave to ProcessNewBlockHeaders
    handed,
    \* history: the parts of SendMessages the last step went through, in order
    ran,
    \* history: the responses to getdata requests the last step pushed, in
    \* order, each with the inventory items it answers
    served,
    \* the announcements that were requested so far, of the connected peers
    asked,
    \* per thread, the lock and call instructions of the function it runs that
    \* are still to come, the mutexes it holds in the order it locked them,
    \* and the outside call it is inside of
    threads,
    \* a GCSFilter (blockfilter.cpp) with the set it was built from and the
    \* last query
    filter,
    \* a ChaCha20 (crypto/chacha20.cpp) with the bytes it has put out
    cipher,
    \* an AddrMan (addrman.h): the new and the tried table
    addrman

connVars == <<nodes, cnode, fDisconnect>>
hsVars == <<nVersion, fSuccessfullyConnected, m_their_services, fPreferHeaders,
            m_provides_cmpctblocks, m_requested_hb_cmpctblocks, m_wtxid_relay,
            m_wtxid_relay_peers, m_wants_addrv2, fPreferredDownload,
            m_num_preferred_download_peers>>
addrVars == <<m_addr_relay_enabled, m_getaddr_sent, m_addr_token_bucket,
              m_addr_token_timestamp, m_addr_processed>>
misbVars == <<m_misbehavior_score, m_should_discourage, m_banman, discouraged>>
blkVars == <<mapBlocksInFlight, vBlocksInFlight, nBlocksInFlight,
             m_downloading_since, m_stalling_since, m_peers_downloading_from>>

hdrVars == <<m_last_getheaders_timestamp, m_headers_sync, nUnconnectingHeaders,
             fSyncStarted, nSyncStarted, m_headers_sync_timeout, pindexBestKnownBlock,
             m_chain_sync, m_outbound_peers_with_protect_from_disconnect,
             m_inv_triggered_getheaders_before_sync,
             m_last_block_inv_triggering_headers_sync>>
chainVars == <<fImporting, ibd, best_header_recent>>
dlVars == <<nStatus, pindexLastCommonBlock>>
sendVars == <<m_addrs_to_send, m_getaddr_recvd, m_sent_sendheaders,
              m_blocks_for_headers_relay, m_blocks_for_inv_relay, pindexBestHeaderSent, m_tx_inventory_to_send,
              m_fee_filter_sent, m_txrequest, m_getdata_requests, m_best_height>>
extVars == <<dlVars, sendVars>>
histVars == <<win_start, win_count, gh_time, gh_open, handed, ran, served, asked>>

\* the components beside the message-processing engine
libVars == <<filter, cipher, addrman>>

vars == <<now, connVars, hsVars, addrVars, hdrVars, chainVars, extVars, misbVars, blkVars,
          lNodesAnnouncingHeaderAndIDs, last, pushed, histVars, threads, libVars>>

\* a component that a specification does not use
Unused == "unused"

LibUnused == filter = Unused /\ cipher = Unused /\ addrman = Unused

\* op: the operation; peer, arg: its arguments; ret: what it returned;
\* pre: a value of the state before it that the operation replaced
NoOp == [op |-> "none", peer |-> NoNode, arg |-> 0, ret |-> FALSE, pre |-> 0]
Op(o, p, a, r) == [op |-> o, peer |-> p, arg |-> a, ret |-> r, pre |-> 0]
OpPre(o, p, a, r, q) == [op |-> o, peer |-> p, arg |-> a, ret |-> r, pre |-> q]

\* a message handed to CConnman::PushMessage
Msg(p, t) == [to |-> p, type |-> t]

\* nothing was given to ProcessNewBlockHeaders
NoHand == [peer |-> NoNode, low_work |-> FALSE, via |-> "none"]

\* headers of peer p given to ProcessNewBlockHeaders; low_work tells that the
\* work of their chain is below the anti-DoS threshold; via is "message" for
\* the headers of the message itself and "redownload" for headers released
\* by the peer's HeadersSyncState
Hand(p, low, via) == [peer |-> p, low_work |-> low, via |-> via]

GetHeadersTo(p) == {i \in 1..Len(pushed') : pushed'[i] = Msg(p, "getheaders")}

\* what an observer of the step records.  A window starts when the peer
\* connects and is forgotten when it is finalized.  A getheaders is open
\* from the step that pushes it to the step that receives a headers message
\* of the peer (a step that does both leaves the new getheaders open).
ObserveHist(h, steps, responses) ==
    /\ handed' = h
    /\ ran' = steps
    /\ served' = responses
    /\ asked' = {x \in asked : x.peer \in nodes'}
                 \cup {[peer |-> a.peer, gtxid |-> a.gtxid] :
                          a \in {b \in m_txrequest' \ m_txrequest : b.st = "requested"}}
    /\ gh_time' = [q \in NodeIds |->
                      IF q \notin nodes' THEN 0
                      ELSE IF GetHeadersTo(q) # {} THEN now'
                      ELSE gh_time[q]]
    /\ gh_open' = [q \in NodeIds |->
                      IF q \notin nodes' THEN FALSE
                      ELSE IF GetHeadersTo(q) # {} THEN TRUE
                      ELSE IF last'.op = "ProcessMessage" /\ last'.peer = q
                              /\ last'.arg = "headers" THEN FALSE
                      ELSE gh_open[q]]
    /\ win_start' = [q \in NodeIds |->
                        IF q \notin nodes' THEN 0
                        ELSE IF q \notin nodes THEN now'
                        ELSE win_start[q]]
    /\ win_count' = [q \in NodeIds |->
                        IF q \in nodes /\ q \in nodes'
                        THEN win_count[q] + (m_addr_processed'[q] - m_addr_processed[q])
                        ELSE 0]
    /\ UNCHANGED <<threads, libVars>>

\* the same for a step that leaves the list of compact block peers alone
ObserveAll(h, steps, responses) ==
    /\ ObserveHist(h, steps, responses)
    /\ UNCHANGED lNodesAnnouncingHeaderAndIDs

ObserveRun(h, steps) == ObserveAll(h, steps, <<>>)

ObserveStep(h) == ObserveRun(h, <<>>)

Observe == ObserveStep(NoHand)

\* ----------------------------------------------------------------- helpers
Max(a, b) == IF a >= b THEN a ELSE b
Min(a, b) == IF a <= b THEN a ELSE b

Range(s) == {s[i] : i \in 1..Len(s)}

\* std::list::erase of the element holding hash h
EraseHash(s, h) == SelectSeq(s, LAMBDA x : x # h)

\* ------------------------------------------------- block in-flight tracking

\* PeerManagerImpl::IsBlockRequested
IsBlockRequested(h) == mapBlocksInFlight[h] # NoNode

(* The effect of PeerManagerImpl::RemoveBlockRequest(hash) on the block     *)
(* bookkeeping, as a record of the new values (the function is called from *)
(* inside other operations, so it is computed, then assigned by the caller).*)
BlkState == [map |-> mapBlocksInFlight, list |-> vBlocksInFlight,
             n |-> nBlocksInFlight, since |-> m_downloading_since,
             stall |-> m_stalling_since, from |-> m_peers_downloading_from]

\* RemoveBlockRequest that leaves the peer's m_stalling_since alone
RemoveBlockRequestIn_KeepStall(b, h) ==
    IF b.map[h] = NoNode
    THEN b
    ELSE LET node_id == b.map[h]
             first   == Len(b.list[node_id]) > 0 /\ Head(b.list[node_id]) = h
             n1      == b.n[node_id] - 1
         IN [map   |-> [b.map EXCEPT ![h] = NoNode],
             list  |-> [b.list EXCEPT ![node_id] = EraseHash(@, h)],
             n     |-> [b.n EXCEPT ![node_id] = n1],
             since |-> IF first
                       THEN [b.since EXCEPT ![node_id] = Max(@, now)]
                       ELSE b.since,
             stall |-> b.stall,
             from  |-> IF n1 = 0 THEN b.from - 1 ELSE b.from]

RemoveBlockRequestIn(b, h) ==
    IF b.map[h] = NoNode
    THEN b   \* Block was not requested
    ELSE LET node_id == b.map[h]
             first   == Len(b.list[node_id]) > 0 /\ Head(b.list[node_id]) = h
             n1      == b.n[node_id] - 1
         IN [map   |-> [b.map EXCEPT ![h] = NoNode],
             list  |-> [b.list EXCEPT ![node_id] = EraseHash(@, h)],
             n     |-> [b.n EXCEPT ![node_id] = n1],
             since |-> IF first
                       THEN [b.since EXCEPT ![node_id] = Max(@, now)]
                       ELSE b.since,
             stall |-> [b.stall EXCEPT ![node_id] = 0],
             from  |-> IF n1 = 0 THEN b.from - 1 ELSE b.from]

\* BlockRequested without the call of RemoveBlockRequest ("Make sure it's not
\* listed somewhere already"): the previous owner keeps the block
BlockRequestedIn_NoRemove(b, nodeid, h) ==
    IF b.map[h] = nodeid
    THEN b
    ELSE [map   |-> [b.map EXCEPT ![h] = nodeid],
          list  |-> [b.list EXCEPT ![nodeid] = Append(@, h)],
          n     |-> [b.n EXCEPT ![nodeid] = @ + 1],
          since |-> IF b.n[nodeid] = 0
                    THEN [b.since EXCEPT ![nodeid] = now]
                    ELSE b.since,
          stall |-> b.stall,
          from  |-> IF b.n[nodeid] = 0 THEN b.from + 1 ELSE b.from]

\* BlockRequested without the same-node short-circuit: the block is queued again
BlockRequestedIn_NoShortCircuit(b, nodeid, h) ==
    [map   |-> [b.map EXCEPT ![h] = nodeid],
     list  |-> [b.list EXCEPT ![nodeid] = Append(@, h)],
     n     |-> [b.n EXCEPT ![nodeid] = @ + 1],
     since |-> b.since,
     stall |-> b.stall,
     from  |-> b.from]

\* PeerManagerImpl::BlockRequested: the new bookkeeping ...
BlockRequestedIn(b, nodeid, h) ==
    IF b.map[h] = nodeid
    THEN b   \* Short-circuit most stuff in case it is from the same node
    ELSE LET r  == RemoveBlockRequestIn(b, h)
             n1 == r.n[nodeid] + 1
         IN [map   |-> [r.map EXCEPT ![h] = nodeid],
             list  |-> [r.list EXCEPT ![nodeid] = Append(@, h)],
             n     |-> [r.n EXCEPT ![nodeid] = n1],
             since |-> IF n1 = 1
                       THEN [r.since EXCEPT ![nodeid] = now]
                       ELSE r.since,
             stall |-> r.stall,
             from  |-> IF n1 = 1 THEN r.from + 1 ELSE r.from]

\* ... and its return value
BlockRequestedRet(b, nodeid, h) == b.map[h] # nodeid

SetBlk(b) ==
    /\ mapBlocksInFlight' = b.map
    /\ vBlocksInFlight' = b.list
    /\ nBlocksInFlight' = b.n
    /\ m_downloading_since' = b.since
    /\ m_stalling_since' = b.stall
    /\ m_peers_downloading_from' = b.from

\* ------------------------------------------------------------- misbehavior
MisbState == [score |-> m_misbehavior_score, disc |-> m_should_discourage]

\* Misbehaving with a score that saturates at the threshold
MisbehavingIn_Capped(ms, p, howmuch) ==
    LET score_before == ms.score[p]
        score_now    == Min(score_before + howmuch, DISCOURAGEMENT_THRESHOLD)
    IN [score |-> [ms.score EXCEPT ![p] = score_now],
        disc  |-> IF score_now >= DISCOURAGEMENT_THRESHOLD
                     /\ score_before < DISCOURAGEMENT_THRESHOLD
                  THEN [ms.disc EXCEPT ![p] = TRUE]
                  ELSE ms.disc]

\* PeerManagerImpl::Misbehaving(peer, howmuch)
MisbehavingIn(ms, p, howmuch) ==
    LET score_before == ms.score[p]
        score_now    == score_before + howmuch
    IN [score |-> [ms.score EXCEPT ![p] = score_now],
        disc  |-> IF score_now >= DISCOURAGEMENT_THRESHOLD
                     /\ score_before < DISCOURAGEMENT_THRESHOLD
                  THEN [ms.disc EXCEPT ![p] = TRUE]
                  ELSE ms.disc]

SetMisb(ms) ==
    /\ m_misbehavior_score' = ms.score
    /\ m_should_discourage' = ms.disc

\* CConnman::DisconnectNode(const CNetAddr&): every connection to the address
\* is marked for disconnection
DisconnectNode(fd, a) ==
    [q \in NodeIds |-> IF q \in nodes /\ cnode[q].addr = a THEN TRUE ELSE fd[q]]

(* PeerManagerImpl::MaybeDiscourageAndDisconnect(pnode, peer): its return   *)
(* value and what it does to m_should_discourage, fDisconnect and the       *)
(* discouragement filter.                                                   *)
\* the exemptions without the one of the manual connections
Punishable_NoBanOnly(p) == ~cnode[p].noban

Punishable(p) == ~cnode[p].noban /\ ~IsManualConn(cnode[p])

MaybeDiscourageRet(p) == m_should_discourage[p] /\ Punishable(p)

\* MaybeDiscourageAndDisconnect without the NoBan and manual exemptions
MaybeDiscourageFd_NoExemption(p) ==
    IF ~m_should_discourage[p] THEN fDisconnect
    ELSE IF IsLocal(cnode[p].addr) THEN [fDisconnect EXCEPT ![p] = TRUE]
    ELSE DisconnectNode(fDisconnect, cnode[p].addr)

MaybeDiscourageFd(p) ==
    IF ~MaybeDiscourageRet(p) THEN fDisconnect
    ELSE IF IsLocal(cnode[p].addr) THEN [fDisconnect EXCEPT ![p] = TRUE]
    ELSE DisconnectNode(fDisconnect, cnode[p].addr)

MaybeDiscourageBan(p) ==
    IF MaybeDiscourageRet(p) /\ ~IsLocal(cnode[p].addr) /\ m_banman
    THEN discouraged \cup {cnode[p].addr}
    ELSE discouraged

\* ------------------------------------------------------ message processing
(* The handlers of PeerManagerImpl::ProcessMessage, in the order of the     *)
(* source.  A handler gives the new value of fDisconnect, of the handshake, *)
(* address-relay, misbehavior and block-download state, and the messages it *)
(* pushes.  A message is a record whose field `type` is the message type;   *)
(* the other fields are what the handler reads from the payload.            *)

handlerVars == <<fDisconnect, hsVars, addrVars, hdrVars, m_misbehavior_score,
                 m_should_discourage, blkVars>>

\* the handler returns without touching anything
Ignored ==
    /\ pushed' = <<>>
    /\ UNCHANGED handlerVars

\* the handler only sets pfrom.fDisconnect
OnlyDisconnect(p) ==
    /\ fDisconnect' = [fDisconnect EXCEPT ![p] = TRUE]
    /\ pushed' = <<>>
    /\ UNCHANGED <<hsVars, addrVars, m_misbehavior_score, m_should_discourage, blkVars, hdrVars>>

\* the handler only calls Misbehaving(peer, howmuch)
OnlyMisbehaving(p, howmuch) ==
    /\ SetMisb(MisbehavingIn(MisbState, p, howmuch))
    /\ pushed' = <<>>
    /\ UNCHANGED <<fDisconnect, hsVars, addrVars, blkVars, hdrVars>>

GetCommonVersion(p) == Min(nVersion[p], PROTOCOL_VERSION)

\* SetupAddressRelay(node, peer): its return value (it sets
\* m_addr_relay_enabled when it returns true)
SetupAddressRelay(c) == ~IsBlockOnlyConn(c)

\* NetMsgType::VERSION
OnVersion(p, msg) ==
    LET c   == cnode[p]
        gcv == Min(msg.nVersion, PROTOCOL_VERSION)
        getaddr == ~IsInboundConn(c) /\ SetupAddressRelay(c)
        preferred == /\ (~IsInboundConn(c) \/ c.noban)
                     /\ ~IsAddrFetchConn(c)
                     /\ CanServeBlocksOf(msg.services)
    IN
    IF nVersion[p] # 0 THEN Ignored
    ELSE IF ExpectServicesFromConn(c) /\ ~HasAllDesirableServiceFlags(msg.services)
        THEN OnlyDisconnect(p)
    ELSE IF msg.nVersion < MIN_PEER_PROTO_VERSION THEN OnlyDisconnect(p)
    ELSE IF IsInboundConn(c) /\ ~msg.nonce_ok THEN OnlyDisconnect(p)
    ELSE
        /\ pushed' =
              (IF IsInboundConn(c) THEN <<Msg(p, "version")>> ELSE <<>>)
              \o (IF gcv >= WTXID_RELAY_VERSION THEN <<Msg(p, "wtxidrelay")>> ELSE <<>>)
              \o (IF gcv >= 70016 THEN <<Msg(p, "sendaddrv2")>> ELSE <<>>)
              \o <<Msg(p, "verack")>>
              \o (IF getaddr THEN <<Msg(p, "getaddr")>> ELSE <<>>)
              \o (IF gcv <= 70012 THEN <<Msg(p, "alert")>> ELSE <<>>)
        /\ nVersion' = [nVersion EXCEPT ![p] = msg.nVersion]
        /\ m_their_services' = [m_their_services EXCEPT ![p] = msg.services]
        /\ fPreferredDownload' = [fPreferredDownload EXCEPT ![p] = preferred]
        /\ m_num_preferred_download_peers' =
              m_num_preferred_download_peers + (IF preferred THEN 1 ELSE 0)
        /\ m_addr_relay_enabled' =
              IF getaddr THEN [m_addr_relay_enabled EXCEPT ![p] = TRUE]
              ELSE m_addr_relay_enabled
        /\ m_getaddr_sent' =
              IF getaddr THEN [m_getaddr_sent EXCEPT ![p] = TRUE] ELSE m_getaddr_sent
        /\ m_addr_token_bucket' =
              IF getaddr
              THEN [m_addr_token_bucket EXCEPT ![p] = @ + MAX_ADDR_TO_SEND * TokenUnit]
              ELSE m_addr_token_bucket
        /\ fDisconnect' = IF IsFeelerConn(c) THEN [fDisconnect EXCEPT ![p] = TRUE]
                          ELSE fDisconnect
        /\ UNCHANGED <<fSuccessfullyConnected, fPreferHeaders, m_provides_cmpctblocks,
                       m_requested_hb_cmpctblocks, m_wtxid_relay, m_wtxid_relay_peers,
                       m_wants_addrv2, m_addr_token_timestamp, m_addr_processed,
                       m_misbehavior_score, m_should_discourage, blkVars, hdrVars>>

\* NetMsgType::VERACK
OnVerack(p) ==
    IF fSuccessfullyConnected[p] THEN Ignored
    ELSE
        /\ pushed' = IF GetCommonVersion(p) >= SHORT_IDS_BLOCKS_VERSION
                     THEN <<Msg(p, "sendcmpct")>> ELSE <<>>
        /\ fSuccessfullyConnected' = [fSuccessfullyConnected EXCEPT ![p] = TRUE]
        /\ UNCHANGED <<fDisconnect, nVersion, m_their_services, fPreferHeaders,
                       m_provides_cmpctblocks, m_requested_hb_cmpctblocks, m_wtxid_relay,
                       m_wtxid_relay_peers, m_wants_addrv2, fPreferredDownload,
                       m_num_preferred_download_peers, addrVars,
                       m_misbehavior_score, m_should_discourage, blkVars, hdrVars>>

\* NetMsgType::SENDHEADERS
OnSendHeaders(p) ==
    /\ fPreferHeaders' = [fPreferHeaders EXCEPT ![p] = TRUE]
    /\ pushed' = <<>>
    /\ UNCHANGED <<fDisconnect, nVersion, fSuccessfullyConnected, m_their_services,
                   m_provides_cmpctblocks, m_requested_hb_cmpctblocks, m_wtxid_relay,
                   m_wtxid_relay_peers, m_wants_addrv2, fPreferredDownload,
                   m_num_preferred_download_peers, addrVars,
                   m_misbehavior_score, m_should_discourage, blkVars, hdrVars>>

\* NetMsgType::SENDCMPCT
OnSendCmpct(p, msg) ==
    IF msg.version # CMPCTBLOCKS_VERSION THEN Ignored
    ELSE
        /\ m_provides_cmpctblocks' = [m_provides_cmpctblocks EXCEPT ![p] = TRUE]
        /\ m_requested_hb_cmpctblocks' = [m_requested_hb_cmpctblocks EXCEPT ![p] = msg.hb]
        /\ pushed' = <<>>
        /\ UNCHANGED <<fDisconnect, nVersion, fSuccessfullyConnected, m_their_services,
                       fPreferHeaders, m_wtxid_relay, m_wtxid_relay_peers, m_wants_addrv2,
                       fPreferredDownload, m_num_preferred_download_peers, addrVars,
                       m_misbehavior_score, m_should_discourage, blkVars, hdrVars>>

\* NetMsgType::WTXIDRELAY
OnWtxidRelay(p) ==
    IF fSuccessfullyConnected[p] THEN OnlyDisconnect(p)
    ELSE IF GetCommonVersion(p) >= WTXID_RELAY_VERSION /\ ~m_wtxid_relay[p]
    THEN
        /\ m_wtxid_relay' = [m_wtxid_relay EXCEPT ![p] = TRUE]
        /\ m_wtxid_relay_peers' = m_wtxid_relay_peers + 1
        /\ pushed' = <<>>
        /\ UNCHANGED <<fDisconnect, nVersion, fSuccessfullyConnected, m_their_services,
                       fPreferHeaders, m_provides_cmpctblocks, m_requested_hb_cmpctblocks,
                       m_wants_addrv2, fPreferredDownload, m_num_preferred_download_peers,
                       addrVars, m_misbehavior_score, m_should_discourage, blkVars, hdrVars>>
    ELSE Ignored

\* a sendaddrv2 handler that takes the message at any time
OnSendAddrV2_Anytime(p) ==
    /\ m_wants_addrv2' = [m_wants_addrv2 EXCEPT ![p] = TRUE]
    /\ pushed' = <<>>
    /\ UNCHANGED <<fDisconnect, nVersion, fSuccessfullyConnected, m_their_services,
                   fPreferHeaders, m_provides_cmpctblocks, m_requested_hb_cmpctblocks,
                   m_wtxid_relay, m_wtxid_relay_peers, fPreferredDownload,
                   m_num_preferred_download_peers, addrVars,
                   m_misbehavior_score, m_should_discourage, blkVars, hdrVars>>

\* NetMsgType::SENDADDRV2
OnSendAddrV2(p) ==
    IF fSuccessfullyConnected[p] THEN OnlyDisconnect(p)
    ELSE
        /\ m_wants_addrv2' = [m_wants_addrv2 EXCEPT ![p] = TRUE]
        /\ pushed' = <<>>
        /\ UNCHANGED <<fDisconnect, nVersion, fSuccessfullyConnected, m_their_services,
                       fPreferHeaders, m_provides_cmpctblocks, m_requested_hb_cmpctblocks,
                       m_wtxid_relay, m_wtxid_relay_peers, fPreferredDownload,
                       m_num_preferred_download_peers, addrVars,
                       m_misbehavior_score, m_should_discourage, blkVars, hdrVars>>

(* The address rate limiter of the ADDR / ADDRV2 handler.                   *)

\* the refill that ignores MAX_ADDR_PROCESSING_TOKEN_BUCKET
AddrRefill_Uncapped(bucket, time_diff) == bucket + (time_diff * TokenUnit) \div 10

\* the per-address step that takes a token whether or not one is left
AddrTokensTaken_NoFloor(bucket, n) == n

\* "Update/increment addr rate limiting bucket": MAX_ADDR_RATE_PER_SECOND
\* {0.1} tokens for every second since m_addr_token_timestamp, up to
\* MAX_ADDR_PROCESSING_TOKEN_BUCKET; a bucket that is already full is left
AddrRefill(bucket, time_diff) ==
    IF bucket < MAX_ADDR_PROCESSING_TOKEN_BUCKET * TokenUnit
    THEN Min(bucket + (Max(time_diff, 0) * TokenUnit) \div 10,
             MAX_ADDR_PROCESSING_TOKEN_BUCKET * TokenUnit)
    ELSE bucket

\* the loop over the n addresses of the message: an address takes one token
\* while m_addr_token_bucket >= 1.0; the number of tokens the loop takes
AddrTokensTaken(bucket, n) == Min(n, bucket \div TokenUnit)

\* NetMsgType::ADDR, NetMsgType::ADDRV2.  msg.n is vAddr.size(); msg.good
\* tells that the addresses pass the service-flag and ban filters
OnAddr(p, msg) ==
    LET c == cnode[p]
        bucket == AddrRefill(m_addr_token_bucket[p], now - m_addr_token_timestamp[p])
        taken == AddrTokensTaken(bucket, msg.n)
        rate_limited == ~c.addr_perm
        \* addresses that get past the rate limiter
        passed == IF rate_limited THEN taken ELSE msg.n
        num_proc == IF msg.good THEN passed ELSE 0
    IN
    IF ~SetupAddressRelay(c) THEN Ignored
    ELSE IF msg.n > MAX_ADDR_TO_SEND
    THEN
        /\ m_addr_relay_enabled' = [m_addr_relay_enabled EXCEPT ![p] = TRUE]
        /\ SetMisb(MisbehavingIn(MisbState, p, 20))
        /\ pushed' = <<>>
        /\ UNCHANGED <<fDisconnect, hsVars, m_getaddr_sent, m_addr_token_bucket,
                       m_addr_token_timestamp, m_addr_processed, blkVars, hdrVars>>
    ELSE
        /\ m_addr_relay_enabled' = [m_addr_relay_enabled EXCEPT ![p] = TRUE]
        /\ m_addr_token_bucket' =
              [m_addr_token_bucket EXCEPT ![p] = bucket - taken * TokenUnit]
        /\ m_addr_token_timestamp' = [m_addr_token_timestamp EXCEPT ![p] = now]
        /\ m_addr_processed' = [m_addr_processed EXCEPT ![p] = @ + num_proc]
        /\ m_getaddr_sent' = IF msg.n < 1000 THEN [m_getaddr_sent EXCEPT ![p] = FALSE]
                             ELSE m_getaddr_sent
        /\ fDisconnect' = IF IsAddrFetchConn(c) /\ msg.n > 1
                          THEN [fDisconnect EXCEPT ![p] = TRUE] ELSE fDisconnect
        /\ pushed' = <<>>
        /\ UNCHANGED <<hsVars, m_misbehavior_score, m_should_discourage, blkVars, hdrVars>>

\* ------------------------------------------------------------ headers sync

NoBlock == -1     \* a null CBlockIndex pointer, where the model keeps nChainWork
NoTimeout == -1   \* std::chrono::microseconds::max()

\* PeerManagerImpl::GetAntiDoSWorkThreshold()
GetAntiDoSWorkThreshold ==
    Max(TipWork - Min(144 * TipProof, TipWork), nMinimumChainWork)

\* a condition that lets every getheaders out
GetHeadersAllowed_Always(ts) == TRUE

\* MaybeSendGetHeaders: "Only allow a new getheaders message to go out if we
\* don't have a recent one already in-flight"
GetHeadersAllowed(ts) == now - ts > HEADERS_RESPONSE_TIME

\* PeerManagerImpl::MaybeSendGetHeaders on a record r that carries the peer's
\* m_last_getheaders_timestamp (ts) and the getheaders pushed so far (gh)
MaybeSendGetHeadersIn(r) ==
    IF GetHeadersAllowed(r.ts) THEN [r EXCEPT !.ts = now, !.gh = @ + 1] ELSE r

\* the getheaders state of the peer at the start of a step
GhState(p) == [ts |-> m_last_getheaders_timestamp[p], gh |-> 0]

\* the messages MaybeSendGetHeaders pushed
GhPushed(p, r) == [i \in 1..r.gh |-> Msg(p, "getheaders")]

\* CNodeState::ChainSyncTimeoutState, m_work_header kept as its nChainWork
ChainSyncTimeoutState(t, w, s, pr) ==
    [m_timeout |-> t, m_work_header |-> w, m_sent_getheaders |-> s, m_protect |-> pr]

NoChainSync == ChainSyncTimeoutState(0, NoBlock, FALSE, FALSE)

\* PeerManagerImpl::UpdateBlockAvailability for a block whose nChainWork in
\* the block index is w (0 when the hash is not in the index): the new
\* pindexBestKnownBlock
UpdateBlockAvailabilityIn(best, w) ==
    IF w > 0 /\ (best = NoBlock \/ w >= best) THEN w ELSE best

(* HeadersSyncState (headerssync.h): state is the download state, work the  *)
(* chain work claimed in PRESYNC (m_current_chain_work), red the chain work *)
(* of the headers downloaded again in REDOWNLOAD (m_redownload_chain_work). *)
(* A null m_headers_sync is NoSync.                                         *)
NoSync == [state |-> "NONE", work |-> 0, red |-> 0]

\* HeadersSyncState(id, consensus_params, chain_start, minimum_required_work)
NewHeadersSync(start_work) == [state |-> "PRESYNC", work |-> start_work, red |-> start_work]

(* HeadersSyncState::ProcessNextHeaders(headers, full_headers_message).     *)
(* msg.sync_ok tells whether the headers pass the checks of the current     *)
(* phase, msg.release_early whether the redownload buffer is so long that   *)
(* headers leave it before the redownloaded chain has the required work.    *)
(* next is the state after the call, NoSync when it is FINAL; released      *)
(* tells that pow_validated_headers is not empty and total is the chain     *)
(* work at the last released header.                                        *)
ProcessNextHeaders(hs, msg, full) ==
    IF hs.state = "PRESYNC" THEN
        LET work1 == hs.work + msg.work
            reached == msg.sync_ok /\ work1 >= GetAntiDoSWorkThreshold
            more == msg.sync_ok /\ (full \/ reached)
        IN [success |-> msg.sync_ok, request_more |-> more, released |-> FALSE,
            total |-> 0,
            next |-> IF ~more THEN NoSync
                     ELSE [state |-> IF reached THEN "REDOWNLOAD" ELSE "PRESYNC",
                           work |-> work1, red |-> hs.red]]
    ELSE
        LET red1 == hs.red + msg.work
            all == red1 >= GetAntiDoSWorkThreshold
            more == msg.sync_ok /\ ~all /\ full
        IN [success |-> msg.sync_ok, request_more |-> more,
            released |-> msg.sync_ok /\ (all \/ (full /\ msg.release_early)),
            total |-> red1,
            next |-> IF ~more THEN NoSync ELSE [hs EXCEPT !.red = red1]]

\* a node that punishes inbound peers for BLOCK_CACHED_INVALID as well
MaybePunishNodeForBlock_Inbound(result, via_compact_block, is_inbound) ==
    IF result \in {"BLOCK_CONSENSUS", "BLOCK_MUTATED", "BLOCK_CACHED_INVALID"} THEN
        (IF ~via_compact_block THEN 100 ELSE 0)
    ELSE IF result \in {"BLOCK_INVALID_HEADER", "BLOCK_CHECKPOINT", "BLOCK_INVALID_PREV"} THEN 100
    ELSE IF result = "BLOCK_MISSING_PREV" THEN 10
    ELSE 0

\* PeerManagerImpl::MaybePunishNodeForBlock(nodeid, state, via_compact_block):
\* the score it gives to Misbehaving, 0 when it does not punish
MaybePunishNodeForBlock(result, via_compact_block, is_inbound) ==
    IF result \in {"BLOCK_CONSENSUS", "BLOCK_MUTATED"} THEN
        (IF ~via_compact_block THEN 100 ELSE 0)
    ELSE IF result = "BLOCK_CACHED_INVALID" THEN
        (IF ~via_compact_block /\ ~is_inbound THEN 100 ELSE 0)
    ELSE IF result \in {"BLOCK_INVALID_HEADER", "BLOCK_CHECKPOINT", "BLOCK_INVALID_PREV"} THEN 100
    ELSE IF result = "BLOCK_MISSING_PREV" THEN 10
    ELSE 0

\* a test that punishes every unconnecting message
PunishUnconnecting_Always(n) == TRUE

\* HandleFewUnconnectingHeaders: the counter is a multiple of MAX_UNCONNECTING_HEADERS
PunishUnconnecting(n) == n % MAX_UNCONNECTING_HEADERS = 0

\* a test that finds no chain to have too little work
TooLittleWork_Never(total_work) == FALSE

\* TryLowWorkHeadersSync: total_work < minimum_chain_work
TooLittleWork(total_work) == total_work < GetAntiDoSWorkThreshold

(* What a headers message does to the peer, as a record: ts and gh the      *)
(* getheaders state, sync the HeadersSyncState, n nUnconnectingHeaders,     *)
(* howmuch the score given to Misbehaving (0: no call), best                *)
(* pindexBestKnownBlock, disconnect and protect whether fDisconnect and     *)
(* m_chain_sync.m_protect get set, fetch the blocks of the direct fetch,    *)
(* hand what ProcessNewBlockHeaders got.                                    *)
HdrEntry(p) ==
    [ts |-> 0, gh |-> 0, sync |-> m_headers_sync[p], n |-> nUnconnectingHeaders[p],
     howmuch |-> 0, best |-> pindexBestKnownBlock[p], disconnect |-> FALSE,
     protect |-> FALSE, fetch |-> <<>>, hand |-> NoHand]

\* PeerManagerImpl::CheckHeadersPoW: the score given to Misbehaving, 0 when
\* the headers pass
CheckHeadersPoW(msg) ==
    IF ~msg.pow_ok THEN 100 ELSE IF ~msg.continuous THEN 20 ELSE 0

\* PeerManagerImpl::HandleFewUnconnectingHeaders; the last header is not in
\* the block index
HandleFewUnconnectingHeaders(r) ==
    LET r1 == MaybeSendGetHeadersIn([r EXCEPT !.n = @ + 1])
    IN IF PunishUnconnecting(r1.n) THEN [r1 EXCEPT !.howmuch = 20] ELSE r1

\* PeerManagerImpl::UpdatePeerStateForReceivedHeaders(pfrom, pindexLast,
\* received_new_header, may_have_more_headers), total the work of pindexLast
UpdatePeerStateForReceivedHeaders(p, r, total, may_have_more_headers) ==
    LET best1 == UpdateBlockAvailabilityIn(r.best, total)
        disc == /\ ibd
                /\ ~may_have_more_headers
                /\ best1 # NoBlock
                /\ best1 < nMinimumChainWork
                /\ IsOutboundOrBlockRelayConn(cnode[p])
        prot == /\ ~disc
                /\ ~fDisconnect[p]
                /\ IsFullOutboundConn(cnode[p])
                /\ best1 # NoBlock
                /\ m_outbound_peers_with_protect_from_disconnect
                       < MAX_OUTBOUND_PEERS_TO_PROTECT_FROM_DISCONNECT
                /\ best1 >= TipWork
                /\ ~m_chain_sync[p].m_protect
    IN [r EXCEPT !.n = 0, !.best = best1, !.disconnect = disc, !.protect = prot]

(* ProcessHeadersMessage from the call of ProcessNewBlockHeaders on: headers *)
(* whose chain has the work total are validated (msg.valid is the result),  *)
(* then more headers are requested, the peer's state is updated and blocks  *)
(* are fetched (msg.fetch is what HeadersDirectFetchBlocks would ask for    *)
(* were no block in flight).                                                *)
AcceptHeaders(p, msg, r, via, total, have_headers_sync) ==
    LET r1 == [r EXCEPT !.hand = Hand(p, total < GetAntiDoSWorkThreshold, via)]
        punish == MaybePunishNodeForBlock(msg.valid, FALSE, IsInboundConn(cnode[p]))
        r2 == IF msg.count = MAX_HEADERS_RESULTS /\ ~have_headers_sync
              THEN MaybeSendGetHeadersIn(r1) ELSE r1
        r3 == UpdatePeerStateForReceivedHeaders(p, r2, total,
                                                msg.count = MAX_HEADERS_RESULTS)
    IN IF msg.valid # "ok" THEN [r1 EXCEPT !.howmuch = punish]
       ELSE [r3 EXCEPT !.fetch = SelectSeq(msg.fetch,
                                           LAMBDA h : ~IsBlockRequested(h))]

(* PeerManagerImpl::TryLowWorkHeadersSync and what ProcessHeadersMessage    *)
(* does after it.  A full message of a chain with too little work starts a  *)
(* HeadersSyncState, which processes the message; the function returns what *)
(* IsContinuationOfLowWorkHeadersSync returns.  Other messages of such      *)
(* chains are dropped.                                                      *)
TryLowWorkHeadersSync(p, msg, r, have_headers_sync) ==
    LET total == msg.start_work + msg.work
        res == ProcessNextHeaders(NewHeadersSync(msg.start_work), msg, TRUE)
        r1 == IF res.request_more THEN MaybeSendGetHeadersIn(r) ELSE r
        r2 == [r1 EXCEPT !.sync = res.next]
    IN IF TooLittleWork(total) THEN
           IF msg.count = MAX_HEADERS_RESULTS THEN
               IF res.success THEN r2
               ELSE AcceptHeaders(p, msg, r2, "message", total, have_headers_sync)
           ELSE r
       ELSE AcceptHeaders(p, msg, r, "message", total, have_headers_sync)

\* ProcessHeadersMessage after IsContinuationOfLowWorkHeadersSync, for the
\* headers of the message itself
ProcessOwnHeaders(p, msg, r, have_headers_sync) ==
    IF ~msg.connects THEN
        IF msg.count <= MAX_BLOCKS_TO_ANNOUNCE THEN HandleFewUnconnectingHeaders(r)
        ELSE [r EXCEPT !.howmuch = 10]
    ELSE IF msg.known_ancestor \/ cnode[p].noban THEN
        AcceptHeaders(p, msg, r, "message", msg.start_work + msg.work, have_headers_sync)
    ELSE TryLowWorkHeadersSync(p, msg, r, have_headers_sync)

(* PeerManagerImpl::ProcessHeadersMessage(pfrom, peer, headers, false).    *)
(* The headers a HeadersSyncState releases start at a block of the block    *)
(* index and count as already validated work.                               *)
ProcessHeadersMessage(p, msg, r) ==
    LET res == ProcessNextHeaders(r.sync, msg, msg.count = MAX_HEADERS_RESULTS)
        r1 == IF res.request_more THEN MaybeSendGetHeadersIn(r) ELSE r
        r2 == [r1 EXCEPT !.sync = res.next]
    IN IF msg.count = 0 THEN [r EXCEPT !.sync = NoSync]
       ELSE IF CheckHeadersPoW(msg) > 0 THEN [r EXCEPT !.howmuch = CheckHeadersPoW(msg)]
       ELSE IF r.sync = NoSync THEN ProcessOwnHeaders(p, msg, r, FALSE)
       ELSE IF ~res.success THEN ProcessOwnHeaders(p, msg, r2, r2.sync # NoSync)
       ELSE IF ~res.released THEN r2
       ELSE AcceptHeaders(p, msg, r2, "redownload", res.total, r2.sync # NoSync)

\* the HEADERS branch of ProcessMessage as a record
HeadersResult(p, msg) ==
    IF msg.count > MAX_HEADERS_RESULTS THEN [HdrEntry(p) EXCEPT !.howmuch = 20]
    ELSE ProcessHeadersMessage(p, msg, HdrEntry(p))

\* the blocks HeadersDirectFetchBlocks requests: "Can't download any more
\* from this peer" once MAX_BLOCKS_IN_TRANSIT_PER_PEER are in flight
RECURSIVE DirectFetch(_, _, _)
DirectFetch(b, p, fetch) ==
    IF fetch = <<>> \/ b.n[p] >= MAX_BLOCKS_IN_TRANSIT_PER_PEER THEN b
    ELSE DirectFetch(BlockRequestedIn(b, p, Head(fetch)), p, Tail(fetch))

\* what the handlers of headers, inv and cmpctblock leave alone
hdrKept == <<fSyncStarted, nSyncStarted, m_headers_sync_timeout>>

\* the HEADERS branch of ProcessMessage
OnHeaders(p, msg) ==
    IF fImporting THEN Ignored   \* "Unexpected headers message received"
    ELSE
        LET r == HeadersResult(p, msg)
            b == DirectFetch(BlkState, p, r.fetch)
        IN
        /\ m_last_getheaders_timestamp' = [m_last_getheaders_timestamp EXCEPT ![p] = r.ts]
        /\ m_headers_sync' = [m_headers_sync EXCEPT ![p] = r.sync]
        /\ nUnconnectingHeaders' = [nUnconnectingHeaders EXCEPT ![p] = r.n]
        /\ pindexBestKnownBlock' = [pindexBestKnownBlock EXCEPT ![p] = r.best]
        /\ m_chain_sync' = IF r.protect
                           THEN [m_chain_sync EXCEPT ![p].m_protect = TRUE]
                           ELSE m_chain_sync
        /\ m_outbound_peers_with_protect_from_disconnect' =
               m_outbound_peers_with_protect_from_disconnect + (IF r.protect THEN 1 ELSE 0)
        /\ fDisconnect' = IF r.disconnect THEN [fDisconnect EXCEPT ![p] = TRUE]
                          ELSE fDisconnect
        /\ IF r.howmuch > 0 THEN SetMisb(MisbehavingIn(MisbState, p, r.howmuch))
           ELSE UNCHANGED <<m_misbehavior_score, m_should_discourage>>
        /\ SetBlk(b)
        /\ pushed' = GhPushed(p, r) \o
                     (IF b.n[p] > nBlocksInFlight[p] THEN <<Msg(p, "getdata")>> ELSE <<>>)
        /\ UNCHANGED <<hsVars, addrVars, hdrKept, m_inv_triggered_getheaders_before_sync,
                       m_last_block_inv_triggering_headers_sync>>

(* The INV branch of ProcessMessage for an inventory of one block: msg.have *)
(* is AlreadyHaveBlock(inv.hash) and msg.work the block's nChainWork in the *)
(* block index (0 when it is not there); msg.oversize stands for an         *)
(* inventory of more than MAX_INV_SZ entries.                               *)
OnInv(p, msg) ==
    IF msg.oversize THEN OnlyMisbehaving(p, 20)
    ELSE
        LET is_best == ~msg.have /\ ~fImporting /\ ~IsBlockRequested(msg.hash)
            trigger == /\ is_best
                       /\ \/ fSyncStarted[p]
                          \/ /\ ~m_inv_triggered_getheaders_before_sync[p]
                             /\ msg.hash # m_last_block_inv_triggering_headers_sync
            r == IF trigger THEN MaybeSendGetHeadersIn(GhState(p)) ELSE GhState(p)
        IN
        /\ pindexBestKnownBlock' =
               [pindexBestKnownBlock EXCEPT ![p] = UpdateBlockAvailabilityIn(@, msg.work)]
        /\ m_last_getheaders_timestamp' = [m_last_getheaders_timestamp EXCEPT ![p] = r.ts]
        /\ m_inv_triggered_getheaders_before_sync' =
               IF trigger /\ ~fSyncStarted[p]
               THEN [m_inv_triggered_getheaders_before_sync EXCEPT ![p] = TRUE]
               ELSE m_inv_triggered_getheaders_before_sync
        /\ m_last_block_inv_triggering_headers_sync' =
               IF trigger /\ ~fSyncStarted[p] THEN msg.hash
               ELSE m_last_block_inv_triggering_headers_sync
        /\ pushed' = GhPushed(p, r)
        /\ UNCHANGED <<fDisconnect, hsVars, addrVars, m_misbehavior_score,
                       m_should_discourage, blkVars, hdrKept, m_headers_sync,
                       nUnconnectingHeaders, m_chain_sync,
                       m_outbound_peers_with_protect_from_disconnect>>

\* a cmpctblock message; valid is what ProcessNewBlockHeaders says of its header
CmpctBlockMsg(prev, valid) == [type |-> "cmpctblock", prev |-> prev, valid |-> valid]

(* The CMPCTBLOCK branch of ProcessMessage for a compact block that the     *)
(* handler drops: msg.prev is "unknown" when the header's previous block is *)
(* not in the block index, "low_work" when the header's chain has less work *)
(* than GetAntiDoSWorkThreshold(), and "known" when the header is given to  *)
(* ProcessNewBlockHeaders, which finds it invalid (msg.valid).              *)
OnCmpctBlock(p, msg) ==
    IF fImporting THEN Ignored
    ELSE IF msg.prev = "unknown" /\ ~ibd THEN
        LET r == MaybeSendGetHeadersIn(GhState(p))
        IN
        /\ m_last_getheaders_timestamp' = [m_last_getheaders_timestamp EXCEPT ![p] = r.ts]
        /\ pushed' = GhPushed(p, r)
        /\ UNCHANGED <<fDisconnect, hsVars, addrVars, m_misbehavior_score,
                       m_should_discourage, blkVars, hdrKept, m_headers_sync,
                       nUnconnectingHeaders, pindexBestKnownBlock, m_chain_sync,
                       m_outbound_peers_with_protect_from_disconnect,
                       m_inv_triggered_getheaders_before_sync,
                       m_last_block_inv_triggering_headers_sync>>
    ELSE IF msg.prev = "known" /\ msg.valid # "ok" THEN
        LET punish == MaybePunishNodeForBlock(msg.valid, TRUE, IsInboundConn(cnode[p]))
        IN IF punish > 0 THEN OnlyMisbehaving(p, punish) ELSE Ignored
    ELSE Ignored

\* ConsiderEviction that disconnects as soon as the chain sync timeout has
\* passed, without the getheaders and the time to answer it
ConsiderEviction_NoSecondChance(p, r) ==
    LET cs == r.cs
        best == pindexBestKnownBlock[p]
    IN
    IF ~(~cs.m_protect /\ IsOutboundOrBlockRelayConn(cnode[p]) /\ r.started) THEN r
    ELSE IF best # NoBlock /\ best >= TipWork THEN
        (IF cs.m_timeout # 0
         THEN [r EXCEPT !.cs = ChainSyncTimeoutState(0, NoBlock, FALSE, cs.m_protect)]
         ELSE r)
    ELSE IF cs.m_timeout = 0
            \/ (cs.m_work_header # NoBlock /\ best # NoBlock /\ best >= cs.m_work_header) THEN
        [r EXCEPT !.cs = ChainSyncTimeoutState(now + CHAIN_SYNC_TIMEOUT, TipWork, FALSE,
                                               cs.m_protect)]
    ELSE IF cs.m_timeout > 0 /\ now > cs.m_timeout THEN [r EXCEPT !.disconnect = TRUE]
    ELSE r

(* PeerManagerImpl::ConsiderEviction(pto, peer, time_in_seconds) on a       *)
(* record: cs the peer's m_chain_sync, ts and gh its getheaders state,      *)
(* disconnect whether fDisconnect gets set                                  *)
ConsiderEviction(p, r) ==
    LET cs == r.cs
        best == pindexBestKnownBlock[p]
    IN
    IF ~(~cs.m_protect /\ IsOutboundOrBlockRelayConn(cnode[p]) /\ r.started) THEN r
    ELSE IF best # NoBlock /\ best >= TipWork THEN
        (IF cs.m_timeout # 0
         THEN [r EXCEPT !.cs = ChainSyncTimeoutState(0, NoBlock, FALSE, cs.m_protect)]
         ELSE r)
    ELSE IF cs.m_timeout = 0
            \/ (cs.m_work_header # NoBlock /\ best # NoBlock /\ best >= cs.m_work_header) THEN
        [r EXCEPT !.cs = ChainSyncTimeoutState(now + CHAIN_SYNC_TIMEOUT, TipWork, FALSE,
                                               cs.m_protect)]
    ELSE IF cs.m_timeout > 0 /\ now > cs.m_timeout THEN
        (IF cs.m_sent_getheaders THEN [r EXCEPT !.disconnect = TRUE]
         ELSE [MaybeSendGetHeadersIn(r) EXCEPT
                   !.cs = ChainSyncTimeoutState(now + HEADERS_RESPONSE_TIME,
                                                cs.m_work_header, TRUE, cs.m_protect)])
    ELSE r

\* SendMessages, "Start block sync": whether the peer is one to sync blocks
\* and headers from
SyncFromPeer(p) ==
    \/ fPreferredDownload[p]
    \/ /\ CanServeBlocksOf(m_their_services[p])
       /\ ~IsAddrFetchConn(cnode[p])
       /\ (m_num_preferred_download_peers = 0
           \/ \A h \in Hashes : mapBlocksInFlight[h] = NoNode)

\* an initial getheaders that does not look at nSyncStarted
StartsSync_AnyPeer(p) ==
    /\ ~fSyncStarted[p]
    /\ CanServeBlocksOf(m_their_services[p])
    /\ ~fImporting
    /\ (SyncFromPeer(p) \/ best_header_recent)

\* SendMessages: whether the initial getheaders is tried
StartsSync(p) ==
    /\ ~fSyncStarted[p]
    /\ CanServeBlocksOf(m_their_services[p])
    /\ ~fImporting
    /\ ((nSyncStarted = 0 /\ SyncFromPeer(p)) \/ best_header_recent)

\* SendMessages, "Detect whether we're stalling" and the block download timeout
IsStalling(p) ==
    m_stalling_since[p] # 0 /\ m_stalling_since[p] < now - BLOCK_STALLING_TIMEOUT

\* a block download timeout that does not count the other downloading peers
DownloadTimedOut_FixedTimeout(p) ==
    /\ Len(vBlocksInFlight[p]) > 0
    /\ now > m_downloading_since[p] + nPowTargetSpacing

DownloadTimedOut(p) ==
    /\ Len(vBlocksInFlight[p]) > 0
    /\ now > m_downloading_since[p] + nPowTargetSpacing
             + (nPowTargetSpacing * (m_peers_downloading_from - 1)) \div 2

BlockTimeout(p) == IsStalling(p) \/ DownloadTimedOut(p)

\* the headers-sync fields of the peer that SendMessages works on, gh the
\* number of getheaders pushed
SyncState(p) ==
    [ts |-> m_last_getheaders_timestamp[p], gh |-> 0,
     started |-> fSyncStarted[p], count |-> nSyncStarted,
     timeout |-> m_headers_sync_timeout[p], cs |-> m_chain_sync[p],
     disconnect |-> FALSE, reason |-> ""]

\* SendMessages, "Start block sync", on the record of SyncPhases
SyncStart(p) ==
    LET r0 == SyncState(p)
        g == MaybeSendGetHeadersIn(r0)
    IN IF StartsSync(p) /\ g.gh > 0
       THEN [g EXCEPT !.started = TRUE, !.count = @ + 1,
                      !.timeout = now + HEADERS_DOWNLOAD_TIMEOUT_BASE]
       ELSE r0

\* the headers sync timeout disconnecting a peer whatever its permissions
SyncPhases_Rest_NoBanIgnored(p, r1) ==
    LET stalled == /\ now > r1.timeout
                   /\ r1.count = 1
                   /\ m_num_preferred_download_peers
                          - (IF fPreferredDownload[p] THEN 1 ELSE 0) >= 1
        r2 == IF ~(r1.started /\ r1.timeout # NoTimeout) THEN r1
              ELSE IF best_header_recent THEN [r1 EXCEPT !.timeout = NoTimeout]
              ELSE IF ~stalled THEN r1
              ELSE [r1 EXCEPT !.disconnect = TRUE, !.reason = "headers_timeout"]
    IN IF r2.disconnect THEN r2 ELSE ConsiderEviction(p, r2)

(* SendMessages from the headers sync timeout to ConsiderEviction, r1 the   *)
(* record after "Start block sync".                                         *)
SyncPhases_Rest(p, r1) ==
    LET stalled == /\ now > r1.timeout
                   /\ r1.count = 1
                   /\ m_num_preferred_download_peers
                          - (IF fPreferredDownload[p] THEN 1 ELSE 0) >= 1
        r2 == IF ~(r1.started /\ r1.timeout # NoTimeout) THEN r1
              ELSE IF best_header_recent THEN [r1 EXCEPT !.timeout = NoTimeout]
              ELSE IF ~stalled THEN r1
              ELSE IF ~cnode[p].noban
                   THEN [r1 EXCEPT !.disconnect = TRUE, !.reason = "headers_timeout"]
              ELSE [r1 EXCEPT !.started = FALSE, !.count = @ - 1, !.timeout = 0]
    IN IF r2.disconnect THEN r2 ELSE ConsiderEviction(p, r2)

\* SyncPhases with the block download timeout looked at before the stalling
SyncPhases_TimeoutFirst(p) ==
    LET r1 == SyncStart(p)
        r == SyncPhases_Rest(p, r1)
    IN IF DownloadTimedOut(p)
       THEN [r1 EXCEPT !.disconnect = TRUE, !.reason = "block_timeout"]
       ELSE IF IsStalling(p) THEN [r1 EXCEPT !.disconnect = TRUE, !.reason = "stalling"]
       ELSE r

(* SendMessages from "Start block sync" to ConsiderEviction, on a record:   *)
(* started, count and timeout are fSyncStarted, nSyncStarted and            *)
(* m_headers_sync_timeout.  The per-header term of the headers download     *)
(* timeout is below one second and left out.  reason names the check that  *)
(* made SendMessages return true ("stalling", "block_timeout",              *)
(* "headers_timeout"), "" when it went on to the getdata part.              *)
SyncPhases(p) ==
    LET r1 == SyncStart(p)
    IN IF IsStalling(p) THEN [r1 EXCEPT !.disconnect = TRUE, !.reason = "stalling"]
       ELSE IF DownloadTimedOut(p)
            THEN [r1 EXCEPT !.disconnect = TRUE, !.reason = "block_timeout"]
       ELSE SyncPhases_Rest(p, r1)

\* the entry of the block index for the block at height h above the tip
StatusOf(h) == IF h \in Hashes THEN nStatus[h] ELSE "none"

\* CBlockIndex::HaveTxsDownloaded: the block and its ancestors have their data
HaveTxsDownloaded(h) == \A k \in 1..h : StatusOf(k) = "data"

NothingToFetch(p) ==
    [vBlocks |-> <<>>, waitingfor |-> NoNode, nodeStaller |-> NoNode,
     common |-> pindexLastCommonBlock[p]]

(* The loop of FindNextBlocksToDownload over the successors of             *)
(* pindexLastCommonBlock, h the height of pindex: blocks with data move    *)
(* pindexLastCommonBlock on, blocks neither downloaded nor in flight are   *)
(* chosen, unless they lie beyond the window, and the owner of the first    *)
(* block in flight is the peer waited for.                                  *)
RECURSIVE WalkToFetch(_, _, _, _, _, _)
WalkToFetch(p, h, nMaxHeight, nWindowEnd, count, w) ==
    IF h > nMaxHeight THEN w
    ELSE IF StatusOf(h) = "none" THEN w
    ELSE IF "WITNESS" \notin m_their_services[p] THEN w
    ELSE IF StatusOf(h) = "data" THEN
        WalkToFetch(p, h + 1, nMaxHeight, nWindowEnd, count,
                    IF HaveTxsDownloaded(h) THEN [w EXCEPT !.common = h] ELSE w)
    ELSE IF ~IsBlockRequested(h) THEN
        (IF h > nWindowEnd THEN
             (IF Len(w.vBlocks) = 0 /\ w.waitingfor # p
              THEN [w EXCEPT !.nodeStaller = w.waitingfor]
              ELSE w)
         ELSE LET w1 == [w EXCEPT !.vBlocks = Append(@, h)]
              IN IF Len(w1.vBlocks) = count THEN w1
                 ELSE WalkToFetch(p, h + 1, nMaxHeight, nWindowEnd, count, w1))
    ELSE IF w.waitingfor = NoNode THEN
        WalkToFetch(p, h + 1, nMaxHeight, nWindowEnd, count,
                    [w EXCEPT !.waitingfor = mapBlocksInFlight[h]])
    ELSE WalkToFetch(p, h + 1, nMaxHeight, nWindowEnd, count, w)

(* PeerManagerImpl::FindNextBlocksToDownload(peer, count, vBlocks,          *)
(* nodeStaller): the blocks above the tip form one chain, the block h at    *)
(* height h with chain work TipWork + h.                                    *)
FindNextBlocksToDownload(p, count) ==
    LET best == pindexBestKnownBlock[p]
        none == NothingToFetch(p)
    IN
    IF count = 0 THEN none
    ELSE IF best = NoBlock \/ best < TipWork \/ best < nMinimumChainWork THEN none
    ELSE LET nHeight == best - TipWork
             guess == IF none.common = NoBlock THEN Min(nHeight, 0) ELSE none.common
             common == Min(guess, nHeight)   \* LastCommonAncestor
             nWindowEnd == common + DownloadWindow
             nMaxHeight == Min(nHeight, nWindowEnd + 1)
             w == [none EXCEPT !.common = common]
         IN IF common = nHeight THEN w
            ELSE WalkToFetch(p, common + 1, nMaxHeight, nWindowEnd, count, w)

\* static bool IsLimitedPeer(const Peer& peer)
IsLimitedPeer(p) ==
    "NETWORK" \notin m_their_services[p] /\ "NETWORK_LIMITED" \in m_their_services[p]

(* SendMessages, "Message: getdata (blocks)": blk is the block download     *)
(* bookkeeping after the requests, common the peer's pindexLastCommonBlock, *)
(* getdata the hashes asked for                                             *)
GetDataBlocks(p) ==
    LET idle == [blk |-> BlkState, common |-> pindexLastCommonBlock[p], getdata |-> <<>>]
    IN
    IF ~(/\ CanServeBlocksOf(m_their_services[p])
         /\ ((SyncFromPeer(p) /\ ~IsLimitedPeer(p)) \/ ~ibd)
         /\ nBlocksInFlight[p] < MAX_BLOCKS_IN_TRANSIT_PER_PEER)
    THEN idle
    ELSE LET w == FindNextBlocksToDownload(
                      p, MAX_BLOCKS_IN_TRANSIT_PER_PEER - nBlocksInFlight[p])
             b == DirectFetch(BlkState, p, w.vBlocks)
             staller == w.nodeStaller
             b1 == IF b.n[p] = 0 /\ staller # NoNode /\ b.stall[staller] = 0
                   THEN [b EXCEPT !.stall[staller] = now]
                   ELSE b
         IN [blk |-> b1, common |-> w.common, getdata |-> w.vBlocks]

(* The BLOCK branch of ProcessMessage: the request of the block is removed  *)
(* from the bookkeeping, whoever it was in flight from, and the block is    *)
(* given to ProcessBlock.                                                   *)
OnBlock(p, msg) ==
    IF fImporting THEN Ignored   \* "Unexpected block message received"
    ELSE /\ SetBlk(RemoveBlockRequestIn(BlkState, msg.hash))
         /\ pushed' = <<>>
         /\ UNCHANGED <<fDisconnect, hsVars, addrVars, hdrVars, m_misbehavior_score,
                        m_should_discourage>>

\* "Must have a version message before anything else"
VersionGate(p) == nVersion[p] = 0

\* a gate that lets every message through
VerackGate_Open(p) == FALSE

\* "Unsupported message prior to verack"
VerackGate(p) == ~fSuccessfullyConnected[p]

\* ------------------------------------------------------ transaction requests

(* The TxRequestTracker m_txrequest, as its operations are described: a   *)
(* set of announcements, at most one per peer and hash.  gtxid is a       *)
(* record of the transaction and whether the hash is its wtxid.  st is    *)
(* "candidate" until the announcement is requested; a candidate is ready  *)
(* once its reqtime is reached.  Where two ready candidates have the same *)
(* reqtime the lower peer id stands for the order of the salted hashes.   *)
GenTxid(tx, is_wtxid) == [tx |-> tx, wtxid |-> is_wtxid]

Announcement(p, gtxid, preferred, reqtime) ==
    [peer |-> p, gtxid |-> gtxid, preferred |-> preferred, reqtime |-> reqtime,
     st |-> "candidate", expiry |-> 0]

TxCount(t, p) == Cardinality({a \in t : a.peer = p})

TxCountInFlight(t, p) == Cardinality({a \in t : a.peer = p /\ a.st = "requested"})

TxSize(t) == Cardinality(t)

ReceivedInv(t, p, gtxid, preferred, reqtime) ==
    IF \E a \in t : a.peer = p /\ a.gtxid = gtxid THEN t
    ELSE t \cup {Announcement(p, gtxid, preferred, reqtime)}

\* the requests whose expiry has passed
TxExpired(t) == {a \in t : a.st = "requested" /\ a.expiry <= now}

\* the ready candidate that is selected for the hash of a, if none is in flight
TxSelected(t, a) ==
    /\ a.st = "candidate"
    /\ a.reqtime <= now
    /\ ~\E b \in t : b.gtxid = a.gtxid /\ b.st = "requested"
    /\ \A b \in t : (b.gtxid = a.gtxid /\ b.st = "candidate" /\ b.reqtime <= now)
                        => \/ a.reqtime < b.reqtime
                           \/ (a.reqtime = b.reqtime /\ a.peer <= b.peer)

GetRequestable(t, p) ==
    LET live == t \ TxExpired(t)
    IN [tracker |-> live,
        requestable |-> {a.gtxid : a \in {b \in live : b.peer = p /\ TxSelected(live, b)}}]

RequestedTx(t, p, gtxid, expiry) ==
    {IF a.peer = p /\ a.gtxid = gtxid /\ a.st = "candidate"
     THEN [a EXCEPT !.st = "requested", !.expiry = expiry] ELSE a : a \in t}

ForgetTxHash(t, gtxid) == {a \in t : a.gtxid # gtxid}

\* ReceivedResponse(peer, txhash): the announcement of the peer is removed
ReceivedResponse(t, p, gtxid) == {a \in t : ~(a.peer = p /\ a.gtxid = gtxid)}

\* a tracker that keeps the announcements of a peer that went away
DisconnectedPeer_Keep(t, p) == t

DisconnectedPeer(t, p) == {a \in t : a.peer # p}

\* a node that tracks as many announcements of a peer as an inv can hold
TxAnnouncementRoom_NoLimit(t, p) == MAX_INV_SZ

\* AddTxAnnouncement, "Too many queued announcements from this peer": the
\* number of announcements of p that are still taken; no peer of the model
\* has the Relay permission
TxAnnouncementRoom(t, p) == Max(MAX_PEER_TX_ANNOUNCEMENTS - TxCount(t, p), 0)

\* AddTxAnnouncement: the delay of the request of an announcement of p
TxRequestDelay(t, p, is_wtxid) ==
    LET overloaded == TxCountInFlight(t, p) >= MAX_PEER_TX_REQUEST_IN_FLIGHT
    IN (IF ~fPreferredDownload[p] THEN NONPREF_PEER_TX_DELAY ELSE 0)
       + (IF ~is_wtxid /\ m_wtxid_relay_peers > 0 THEN TXID_RELAY_DELAY ELSE 0)
       + (IF overloaded THEN OVERLOADED_PEER_TX_DELAY ELSE 0)

\* PeerManagerImpl::AddTxAnnouncement(node, gtxid, current_time)
AddTxAnnouncement(t, p, gtxid) ==
    IF TxAnnouncementRoom(t, p) = 0 THEN t
    ELSE ReceivedInv(t, p, gtxid, fPreferredDownload[p],
                     now + TxRequestDelay(t, p, gtxid.wtxid))

(* AddTxAnnouncement for the transactions first .. last in turn, as the    *)
(* loop over the entries of an inv calls it: the entries p has announced   *)
(* before change nothing, and of the others those are tracked for which    *)
(* there is room.  Nothing is requested meanwhile, so they all get the     *)
(* same delay.                                                             *)
AddTxAnnouncements(t, p, is_wtxid, first, last_tx) ==
    LET mine == {a.gtxid.tx : a \in {b \in t : b.peer = p /\ b.gtxid.wtxid = is_wtxid}}
        fresh == SelectSeq([i \in 1..(last_tx - first + 1) |-> first + i - 1],
                           LAMBDA tx : tx \notin mine)
        taken == Min(TxAnnouncementRoom(t, p), Len(fresh))
        reqtime == now + TxRequestDelay(t, p, is_wtxid)
    IN t \cup {Announcement(p, GenTxid(fresh[i], is_wtxid), fPreferredDownload[p], reqtime) :
                  i \in 1..taken}

\* the node's own address, as GetLocalAddrForPeer returns it
LocalAddr == 0

\* peer->GetTxRelay() != nullptr: set up by VERSION unless the connection is
\* block-relay-only or a feeler (the peer asked for relay: fRelay is true)
TxRelayOf(p) ==
    nVersion[p] # 0 /\ ~IsBlockOnlyConn(cnode[p]) /\ ~IsFeelerConn(cnode[p])

\* PushAddress that lets the queue grow without limit
PushAddressIn_Grow(q, addr, ok, i) == IF ok THEN Append(q, addr) ELSE q

(* PeerManagerImpl::PushAddress(peer, addr, insecure_rand) on the queue q; *)
(* ok: the address is valid, compatible with the peer and not in           *)
(* m_addr_known; i: insecure_rand.randrange(size) + 1                      *)
PushAddressIn(q, addr, ok, i) ==
    IF ~ok THEN q
    ELSE IF Len(q) >= MAX_ADDR_TO_SEND THEN [q EXCEPT ![i] = addr]
    ELSE Append(q, addr)

\* --------------------------------------------- getaddr, getdata and tx inv

\* the message gets past the gates of ProcessMessage to the handler of type t
Reaches(p, msg, t) == msg.type = t /\ ~VersionGate(p) /\ ~VerackGate(p)

(* An inv message with one entry for a transaction: kind is "tx" for      *)
(* MSG_TX and "wtx" for MSG_WTX, have what AlreadyHaveTx says.  The inv    *)
(* messages without a kind have one entry for a block.                     *)
TxInv(kind, tx, have) ==
    [type |-> "inv", oversize |-> FALSE, kind |-> kind, tx |-> tx, have |-> have]

IsTxInv(msg) == "kind" \in DOMAIN msg

\* an inv message with one entry for each of the transactions tx .. upto,
\* none of which the node has
TxInvs(kind, tx, upto) ==
    [type |-> "inv", oversize |-> FALSE, kind |-> kind, tx |-> tx, have |-> FALSE,
     upto |-> upto]

IsTxInvs(msg) == "upto" \in DOMAIN msg

\* a handler that takes entries of either type
InvTypeMismatch_Never(p, msg) == FALSE

\* "Ignore INVs that don't match wtxidrelay setting"
InvTypeMismatch(p, msg) ==
    IF m_wtxid_relay[p] THEN msg.kind = "tx" ELSE msg.kind = "wtx"


\* PeerManagerImpl::RejectIncomingTxs; the node is not in -blocksonly mode
RejectIncomingTxs(p) == IsBlockOnlyConn(cnode[p])

\* ProcessMessage, INV, an entry for a transaction: what it does to the
\* peer; the announcement is in TxRequestAfter
OnTxInv(p, msg) ==
    IF msg.oversize THEN OnlyMisbehaving(p, 20)
    ELSE IF InvTypeMismatch(p, msg) THEN Ignored
    ELSE IF RejectIncomingTxs(p) THEN OnlyDisconnect(p)
    ELSE Ignored

\* a notfound message with one entry, for the hash of a transaction;
\* oversize: it has more than MAX_PEER_TX_ANNOUNCEMENTS +
\* MAX_BLOCKS_IN_TRANSIT_PER_PEER entries
NotFound(gtxid, oversize) == [type |-> "notfound", oversize |-> oversize, item |-> gtxid]

\* a handler that drops the message
NotFoundAfter_Dropped(t, p, msg) == t

\* ProcessMessage, NOTFOUND: the tracker after the message
NotFoundAfter(t, p, msg) ==
    IF msg.oversize THEN t ELSE ReceivedResponse(t, p, msg.item)

\* m_txrequest after the message: AddTxAnnouncement for a new transaction,
\* ReceivedResponse for a notfound
TxRequestAfter(p, msg) ==
    IF Reaches(p, msg, "notfound") THEN NotFoundAfter(m_txrequest, p, msg)
    ELSE
    IF /\ Reaches(p, msg, "inv") /\ IsTxInv(msg) /\ ~msg.oversize
       /\ ~InvTypeMismatch(p, msg) /\ ~RejectIncomingTxs(p)
       /\ ~msg.have /\ ~ibd
    THEN IF IsTxInvs(msg)
         THEN AddTxAnnouncements(m_txrequest, p, msg.kind = "wtx", msg.tx, msg.upto)
         ELSE AddTxAnnouncement(m_txrequest, p, GenTxid(msg.tx, msg.kind = "wtx"))
    ELSE m_txrequest

(* PushAddress for the addresses first .. last in turn, each of them new  *)
(* to the peer, i the index drawn where the queue is full: the addresses   *)
(* the queue has room for are appended one after the other, and of those   *)
(* that follow each replaces the entry at i, so that the last one stays.   *)
PushAddresses(q, first, last_addr, i) ==
    LET room == Max(MAX_ADDR_TO_SEND - Len(q), 0)
        app == Min(last_addr - first + 1, room)
        grown == q \o [j \in 1..app |-> first + j - 1]
    IN IF last_addr < first THEN q
       ELSE IF first + app > last_addr /\ app > 0
            THEN PushAddressIn(SubSeq(grown, 1, Len(grown) - 1), last_addr, TRUE, i)
       ELSE PushAddressIn(grown, last_addr, TRUE, i)

\* a getaddr message; n is the number of addresses CConnman::GetAddresses
\* returns, rand the index PushAddress draws
GetAddrMsg(n, rand) == [type |-> "getaddr", n |-> n, rand |-> rand]

\* a handler that answers every getaddr
GetAddrAnswered_Always(p, msg) == Reaches(p, msg, "getaddr")

\* ProcessMessage, GETADDR: the message is answered
GetAddrAnswered(p, msg) ==
    Reaches(p, msg, "getaddr") /\ IsInboundConn(cnode[p]) /\ ~m_getaddr_recvd[p]

\* ProcessMessage, GETADDR: what it does to the peer apart from the queue
OnGetAddr(p, msg) ==
    IF ~IsInboundConn(cnode[p]) THEN Ignored
    ELSE /\ m_addr_relay_enabled' = [m_addr_relay_enabled EXCEPT ![p] = TRUE]
         /\ pushed' = <<>>
         /\ UNCHANGED <<fDisconnect, hsVars, m_getaddr_sent, m_addr_token_bucket,
                        m_addr_token_timestamp, m_addr_processed, hdrVars,
                        m_misbehavior_score, m_should_discourage, blkVars>>

(* An addr message of at most 10 addresses names the peers its addresses  *)
(* are relayed to (relay: those RelayAddress picks by their hashes, taken *)
(* to be the same for every address of the message), the first of the     *)
(* addresses (addr), whether they are recent, routable and new to those    *)
(* peers (fresh), and the index PushAddress draws (rand).                  *)
AddrRelayMsg(n, relay, addr, fresh, rand) ==
    [type |-> "addr", n |-> n, good |-> TRUE, relay |-> relay, addr |-> addr,
     fresh |-> fresh, rand |-> rand]

\* ProcessMessage, ADDR: the number of addresses handed to RelayAddress
AddrsRelayed(p, msg) ==
    IF /\ Reaches(p, msg, msg.type) /\ msg.type \in {"addr", "addrv2"}
       /\ SetupAddressRelay(cnode[p]) /\ msg.n <= 10
       /\ msg.good /\ msg.fresh /\ ~m_getaddr_sent[p]
    THEN IF cnode[p].addr_perm THEN msg.n
         ELSE AddrTokensTaken(AddrRefill(m_addr_token_bucket[p],
                                         now - m_addr_token_timestamp[p]), msg.n)
    ELSE 0

\* m_addrs_to_send of every peer after the message
AddrsAfter(p, msg) ==
    IF GetAddrAnswered(p, msg)
    THEN [m_addrs_to_send EXCEPT ![p] = PushAddresses(<<>>, 1, msg.n, msg.rand)]
    ELSE IF AddrsRelayed(p, msg) > 0
    THEN [q \in NodeIds |->
             IF q \in nodes /\ q # p /\ q \in msg.relay /\ m_addr_relay_enabled[q]
             THEN PushAddresses(m_addrs_to_send[q], msg.addr,
                                msg.addr + AddrsRelayed(p, msg) - 1, msg.rand)
             ELSE m_addrs_to_send[q]]
    ELSE m_addrs_to_send

\* an inventory item of a getdata message; kind is "tx" or "block"
Item(kind, id) == [kind |-> kind, id |-> id]

(* What a call of ProcessGetData takes from outside the modelled state:   *)
(* found, the transactions FindTxForGetData finds; have_block, whether     *)
(* ProcessGetBlockData sends the block; room, the number of items taken    *)
(* from the queue before CNode::fPauseSend is seen set.                    *)
GetDataEnv(found, have_block, room) ==
    [found |-> found, have_block |-> have_block, room |-> room]

\* a getdata message with its items
GetDataMsg(items, env) ==
    [type |-> "getdata", oversize |-> FALSE, items |-> items, env |-> env]

\* a response pushed by ProcessGetData and the items it answers
Response(t, items) == [type |-> t, items |-> items]

(* ProcessGetData, the loop over the transactions at the front of the     *)
(* queue q: a.i is the iterator, a.out the tx messages pushed, a.notfound  *)
(* the vector vNotFound                                                    *)
RECURSIVE ServeTxs(_, _, _, _)
ServeTxs(p, q, env, a) ==
    IF a.i > Len(q) \/ q[a.i].kind # "tx" THEN a
    ELSE IF a.i > env.room THEN a
    ELSE IF ~TxRelayOf(p) THEN ServeTxs(p, q, env, [a EXCEPT !.i = @ + 1])
    ELSE IF q[a.i].id \in env.found
    THEN ServeTxs(p, q, env, [a EXCEPT !.i = @ + 1,
                                       !.out = Append(@, Response("tx", <<q[a.i]>>))])
    ELSE ServeTxs(p, q, env, [a EXCEPT !.i = @ + 1,
                                       !.notfound = Append(@, q[a.i])])

\* ProcessGetData that answers a transaction it does not have at once
ProcessGetDataIn_Eager(p, q, env) ==
    LET n == IF Len(q) < env.room THEN Len(q) ELSE env.room
    IN [queue |-> SubSeq(q, n + 1, Len(q)),
        served |-> [i \in 1..n |->
                       IF q[i].kind = "tx" /\ q[i].id \notin env.found
                       THEN Response("notfound", <<q[i]>>)
                       ELSE Response(q[i].kind, <<q[i]>>)]]

(* PeerManagerImpl::ProcessGetData on the queue q: the transactions at the *)
(* front, then one more item, a block; the items taken are erased from the *)
(* queue and one notfound message for the missing transactions goes last.  *)
ProcessGetDataIn(p, q, env) ==
    LET a == ServeTxs(p, q, env, [i |-> 1, out |-> <<>>, notfound |-> <<>>])
        more == a.i <= Len(q) /\ a.i <= env.room
        b == IF ~more THEN a
             ELSE [a EXCEPT !.i = @ + 1,
                            !.out = IF q[a.i].kind = "block" /\ env.have_block
                                    THEN Append(@, Response("block", <<q[a.i]>>))
                                    ELSE @]
    IN [queue |-> SubSeq(q, b.i, Len(q)),
        served |-> b.out \o (IF b.notfound # <<>>
                             THEN <<Response("notfound", b.notfound)>> ELSE <<>>)]

\* ProcessMessage, GETDATA: the items join the queue and ProcessGetData runs
GetDataAfter(p, msg) ==
    IF Reaches(p, msg, "getdata") /\ ~msg.oversize
    THEN ProcessGetDataIn(p, m_getdata_requests[p] \o msg.items, msg.env)
    ELSE [queue |-> m_getdata_requests[p], served |-> <<>>]

\* the messages of the responses
ServedMsgs(p, responses) == [i \in 1..Len(responses) |-> Msg(p, responses[i].type)]

\* ProcessMessage, GETDATA: what it does to the peer apart from the queue
OnGetData(p, msg) ==
    IF msg.oversize THEN OnlyMisbehaving(p, 20)
    ELSE /\ pushed' = ServedMsgs(p, GetDataAfter(p, msg).served)
         /\ UNCHANGED handlerVars

\* ----------------------------------------------- getblocks and getheaders

(* A getblocks or getheaders message: oversize tells that the locator has   *)
(* more than MAX_LOCATOR_SZ entries, fork is the block of the active chain  *)
(* that FindForkInGlobalIndex finds for the locator, stop the block of      *)
(* hashStop (NoBlock when it is null or names no block of the chain).       *)
LocatorMsg(t, oversize, fork, stop) ==
    [type |-> t, oversize |-> oversize, fork |-> fork, stop |-> stop]

\* a node that answers neither request in initial block download
ServesLocator_NotInIBD(p, msg, t) == Reaches(p, msg, t) /\ ~msg.oversize /\ ~ibd

\* the request gets to the part of its handler that looks for the blocks
ServesLocator(p, msg, t) == Reaches(p, msg, t) /\ ~msg.oversize

(* ProcessMessage, GETBLOCKS, "Send the rest of the chain": the blocks      *)
(* after the fork up to the tip, hashStop excluded.  The limit of 500       *)
(* blocks is beyond NumBlocks; the node does not prune.                     *)
BlocksToInv(msg) ==
    LET upto == IF msg.stop \in (msg.fork + 1)..m_best_height
                THEN msg.stop - 1 ELSE m_best_height
    IN [i \in 1..(upto - msg.fork) |-> msg.fork + i]

\* m_blocks_for_inv_relay of the peer after the message
BlocksForInvAfter(p, msg) ==
    IF ServesLocator(p, msg, "getblocks")
    THEN m_blocks_for_inv_relay[p] \o BlocksToInv(msg)
    ELSE m_blocks_for_inv_relay[p]

\* ProcessMessage, GETBLOCKS: what it does to the peer apart from the queue
OnGetBlocks(p, msg) ==
    IF msg.oversize THEN OnlyDisconnect(p) ELSE Ignored

(* ProcessMessage, GETHEADERS with a locator that is not null: whether a    *)
(* headers message is the answer.  It is empty when the active chain has    *)
(* less work than nMinimumChainWork (no peer has the Download permission).  *)
HeadersAnswered(p, msg) == ServesLocator(p, msg, "getheaders") /\ ~fImporting

\* the headers of the answer: the blocks after the fork up to hashStop or
\* the tip; MAX_HEADERS_RESULTS is beyond NumBlocks
HeadersToSend(msg) ==
    LET upto == IF msg.stop \in (msg.fork + 1)..m_best_height
                THEN msg.stop ELSE m_best_height
    IN IF TipWork < nMinimumChainWork THEN <<>>
       ELSE [i \in 1..(upto - msg.fork) |-> msg.fork + i]

\* "simply reset the BestHeaderSent value": pindex ? pindex : Tip()
BestHeaderSentAfter(p, msg) ==
    IF HeadersAnswered(p, msg) /\ ~(TipWork < nMinimumChainWork)
    THEN (IF msg.stop \in (msg.fork + 1)..m_best_height THEN msg.stop ELSE m_best_height)
    ELSE pindexBestHeaderSent[p]

\* ProcessMessage, GETHEADERS
OnGetHeaders(p, msg) ==
    IF msg.oversize THEN OnlyDisconnect(p)
    ELSE IF ~HeadersAnswered(p, msg) THEN Ignored
    ELSE /\ pushed' = <<Msg(p, "headers")>>
         /\ UNCHANGED handlerVars

\* the message types whose handlers the model has
HandledTypes == {"version", "verack", "sendheaders", "sendcmpct", "wtxidrelay",
                 "sendaddrv2", "addr", "addrv2", "inv", "cmpctblock", "headers",
                 "block", "getaddr", "getdata", "getblocks", "getheaders", "notfound"}

\* PeerManagerImpl::ProcessMessage(pfrom, msg_type, vRecv, ...)
ProcessMessageIn(p, msg) ==
    IF msg.type = "version" THEN OnVersion(p, msg)
    ELSE IF VersionGate(p) THEN Ignored
    ELSE IF msg.type = "verack" THEN OnVerack(p)
    ELSE IF msg.type = "sendheaders" THEN OnSendHeaders(p)
    ELSE IF msg.type = "sendcmpct" THEN OnSendCmpct(p, msg)
    ELSE IF msg.type = "wtxidrelay" THEN OnWtxidRelay(p)
    ELSE IF msg.type = "sendaddrv2" THEN OnSendAddrV2(p)
    ELSE IF VerackGate(p) THEN Ignored
    ELSE IF msg.type \in {"addr", "addrv2"} THEN OnAddr(p, msg)
    ELSE IF msg.type = "inv" /\ IsTxInv(msg) THEN OnTxInv(p, msg)
    ELSE IF msg.type = "inv" THEN OnInv(p, msg)
    ELSE IF msg.type = "getaddr" THEN OnGetAddr(p, msg)
    ELSE IF msg.type = "getdata" THEN OnGetData(p, msg)
    ELSE IF msg.type = "cmpctblock" THEN OnCmpctBlock(p, msg)
    ELSE IF msg.type = "headers" THEN OnHeaders(p, msg)
    ELSE IF msg.type = "block" THEN OnBlock(p, msg)
    ELSE IF msg.type = "getblocks" THEN OnGetBlocks(p, msg)
    ELSE IF msg.type = "getheaders" THEN OnGetHeaders(p, msg)
    ELSE IF msg.type = "notfound" THEN Ignored
    ELSE FALSE

\* the headers the HEADERS branch gives to ProcessNewBlockHeaders
Handed(p, msg) ==
    IF msg.type = "headers" /\ ~VersionGate(p) /\ ~VerackGate(p) /\ ~fImporting
    THEN HeadersResult(p, msg).hand
    ELSE NoHand

\* the block index after the step: ChainstateManager::ProcessNewBlock stores
\* the data of a block it accepts (msg.accepted)
StatusAfter(p, msg) ==
    IF /\ msg.type = "block" /\ ~VersionGate(p) /\ ~VerackGate(p) /\ ~fImporting
       /\ msg.accepted
    THEN [nStatus EXCEPT ![msg.hash] = "data"]
    ELSE nStatus

\* what an observer of the step notes of the payload
Payload(msg) ==
    IF msg.type = "headers"
    THEN [one_unconnecting |-> msg.count = 1 /\ ~msg.connects,
          valid_pow |-> msg.pow_ok /\ msg.continuous,
          known |-> msg.connects /\ msg.known_ancestor,
          valid |-> msg.valid]
    ELSE IF msg.type = "cmpctblock"
    THEN [prev |-> msg.prev, valid |-> IF msg.prev = "known" THEN msg.valid ELSE "ok"]
    ELSE IF msg.type \in {"getblocks", "getheaders"}
    THEN [oversize |-> msg.oversize, fork |-> msg.fork, stop |-> msg.stop]
    ELSE IF msg.type = "getdata" THEN msg.items
    ELSE IF msg.type = "getaddr" THEN msg.n
    ELSE IF msg.type = "notfound" THEN [oversize |-> msg.oversize, item |-> msg.item]
    ELSE IF msg.type = "inv"
    THEN (IF IsTxInv(msg)
          THEN [kind |-> msg.kind, oversize |-> msg.oversize, tx |-> msg.tx,
                have |-> msg.have,
                upto |-> IF IsTxInvs(msg) THEN msg.upto ELSE msg.tx]
          ELSE [kind |-> "block", oversize |-> msg.oversize])
    ELSE 0

\* ---------------------------------------------------------------- actions

\* PeerManagerImpl::InitializeNode(node, our_services): a CNodeState and a
\* Peer in their initial state for the new connection c
InitializeNode(p, c) ==
    /\ p \notin nodes
    /\ nodes' = nodes \cup {p}
    /\ cnode' = [cnode EXCEPT ![p] = c]
    /\ pushed' = IF ~IsInboundConn(c) THEN <<Msg(p, "version")>> ELSE <<>>
    /\ m_addr_token_timestamp' = [m_addr_token_timestamp EXCEPT ![p] = now]
    /\ last' = Op("InitializeNode", p, 0, FALSE)
    /\ UNCHANGED <<now, fDisconnect, hsVars, hdrVars, chainVars, extVars, misbVars, blkVars>>
    /\ UNCHANGED <<m_addr_relay_enabled, m_getaddr_sent, m_addr_token_bucket,
                   m_addr_processed>>
    /\ Observe

\* FinalizeNode that leaves the blocks of the peer in mapBlocksInFlight
EraseInFlight_Keep(p) == mapBlocksInFlight

\* FinalizeNode, the loop over vBlocksInFlight: mapBlocksInFlight without
\* the blocks in flight from the peer
EraseInFlight(p) ==
    [h \in DOMAIN mapBlocksInFlight |-> IF h \in Range(vBlocksInFlight[p])
                      THEN NoNode ELSE mapBlocksInFlight[h]]

\* no address: m_addrman.Connected is not called
NoAddr == "none"

\* a FinalizeNode that records every handshaked connection that is not inbound
AddrManConnected_AnyOutbound(p) ==
    fSuccessfullyConnected[p] /\ ~IsInboundConn(cnode[p])

\* FinalizeNode: whether m_addrman.Connected(node.addr) is called
AddrManConnected(p) ==
    /\ fSuccessfullyConnected[p]
    /\ m_misbehavior_score[p] = 0
    /\ ~IsBlockOnlyConn(cnode[p])
    /\ ~IsInboundConn(cnode[p])

\* what the peer holds and counts for when FinalizeNode is called
HeldBy(p) ==
    [blocks |-> nBlocksInFlight[p], announcements |-> TxCount(m_txrequest, p),
     preferred |-> fPreferredDownload[p], protect |-> m_chain_sync[p].m_protect,
     wtxid_relay |-> m_wtxid_relay[p], conn |-> cnode[p],
     connected |-> fSuccessfullyConnected[p], score |-> m_misbehavior_score[p]]

\* PeerManagerImpl::FinalizeNode(node): the peer's Peer and CNodeState are
\* erased, the blocks in flight from it are forgotten; arg is the address
\* handed to AddrMan::Connected, NoAddr when it is not called
FinalizeNode(p) ==
    /\ p \in nodes
    /\ nodes' = nodes \ {p}
    /\ cnode' = [cnode EXCEPT ![p] = NoConn]
    /\ fDisconnect' = [fDisconnect EXCEPT ![p] = FALSE]
    /\ nVersion' = [nVersion EXCEPT ![p] = 0]
    /\ fSuccessfullyConnected' = [fSuccessfullyConnected EXCEPT ![p] = FALSE]
    /\ m_their_services' = [m_their_services EXCEPT ![p] = {}]
    /\ fPreferHeaders' = [fPreferHeaders EXCEPT ![p] = FALSE]
    /\ m_provides_cmpctblocks' = [m_provides_cmpctblocks EXCEPT ![p] = FALSE]
    /\ m_requested_hb_cmpctblocks' = [m_requested_hb_cmpctblocks EXCEPT ![p] = FALSE]
    /\ m_wtxid_relay_peers' = m_wtxid_relay_peers - (IF m_wtxid_relay[p] THEN 1 ELSE 0)
    /\ m_wtxid_relay' = [m_wtxid_relay EXCEPT ![p] = FALSE]
    /\ m_wants_addrv2' = [m_wants_addrv2 EXCEPT ![p] = FALSE]
    /\ m_num_preferred_download_peers' =
           m_num_preferred_download_peers - (IF fPreferredDownload[p] THEN 1 ELSE 0)
    /\ fPreferredDownload' = [fPreferredDownload EXCEPT ![p] = FALSE]
    /\ m_addr_relay_enabled' = [m_addr_relay_enabled EXCEPT ![p] = FALSE]
    /\ m_getaddr_sent' = [m_getaddr_sent EXCEPT ![p] = FALSE]
    /\ m_addr_token_bucket' = [m_addr_token_bucket EXCEPT ![p] = TokenUnit]
    /\ m_addr_token_timestamp' = [m_addr_token_timestamp EXCEPT ![p] = 0]
    /\ m_addr_processed' = [m_addr_processed EXCEPT ![p] = 0]
    /\ m_misbehavior_score' = [m_misbehavior_score EXCEPT ![p] = 0]
    /\ m_should_discourage' = [m_should_discourage EXCEPT ![p] = FALSE]
    /\ mapBlocksInFlight' = EraseInFlight(p)
    /\ m_peers_downloading_from' =
           m_peers_downloading_from - (IF nBlocksInFlight[p] # 0 THEN 1 ELSE 0)
    /\ vBlocksInFlight' = [vBlocksInFlight EXCEPT ![p] = <<>>]
    /\ nBlocksInFlight' = [nBlocksInFlight EXCEPT ![p] = 0]
    /\ m_downloading_since' = [m_downloading_since EXCEPT ![p] = 0]
    /\ m_stalling_since' = [m_stalling_since EXCEPT ![p] = 0]
    /\ nSyncStarted' = nSyncStarted - (IF fSyncStarted[p] THEN 1 ELSE 0)
    /\ fSyncStarted' = [fSyncStarted EXCEPT ![p] = FALSE]
    /\ m_outbound_peers_with_protect_from_disconnect' =
           m_outbound_peers_with_protect_from_disconnect
               - (IF m_chain_sync[p].m_protect THEN 1 ELSE 0)
    /\ m_chain_sync' = [m_chain_sync EXCEPT ![p] = NoChainSync]
    /\ m_last_getheaders_timestamp' = [m_last_getheaders_timestamp EXCEPT ![p] = 0]
    /\ m_headers_sync' = [m_headers_sync EXCEPT ![p] = NoSync]
    /\ nUnconnectingHeaders' = [nUnconnectingHeaders EXCEPT ![p] = 0]
    /\ m_headers_sync_timeout' = [m_headers_sync_timeout EXCEPT ![p] = 0]
    /\ pindexBestKnownBlock' = [pindexBestKnownBlock EXCEPT ![p] = NoBlock]
    /\ m_inv_triggered_getheaders_before_sync' =
           [m_inv_triggered_getheaders_before_sync EXCEPT ![p] = FALSE]
    /\ pushed' = <<>>
    /\ last' = OpPre("FinalizeNode", p, IF AddrManConnected(p) THEN cnode[p].addr ELSE NoAddr,
                     FALSE, HeldBy(p))
    /\ pindexLastCommonBlock' = [pindexLastCommonBlock EXCEPT ![p] = NoBlock]
    /\ m_addrs_to_send' = [m_addrs_to_send EXCEPT ![p] = <<>>]
    /\ m_getaddr_recvd' = [m_getaddr_recvd EXCEPT ![p] = FALSE]
    /\ m_sent_sendheaders' = [m_sent_sendheaders EXCEPT ![p] = FALSE]
    /\ m_blocks_for_headers_relay' = [m_blocks_for_headers_relay EXCEPT ![p] = <<>>]
    /\ m_blocks_for_inv_relay' = [m_blocks_for_inv_relay EXCEPT ![p] = <<>>]
    /\ pindexBestHeaderSent' = [pindexBestHeaderSent EXCEPT ![p] = NoBlock]
    /\ m_tx_inventory_to_send' = [m_tx_inventory_to_send EXCEPT ![p] = {}]
    /\ m_fee_filter_sent' = [m_fee_filter_sent EXCEPT ![p] = "0"]
    /\ m_txrequest' = DisconnectedPeer(m_txrequest, p)
    /\ m_getdata_requests' = [m_getdata_requests EXCEPT ![p] = <<>>]
    /\ UNCHANGED <<now, m_banman, discouraged, chainVars, nStatus, m_best_height,
                   m_last_block_inv_triggering_headers_sync>>
    /\ Observe

\* a call of BlockRequested(nodeid, block) (State(nodeid) must exist)
BlockRequested(p, h) ==
    /\ p \in nodes
    /\ SetBlk(BlockRequestedIn(BlkState, p, h))
    /\ last' = OpPre("BlockRequested", p, h, BlockRequestedRet(BlkState, p, h),
                     mapBlocksInFlight[h])
    /\ pushed' = <<>>
    /\ UNCHANGED <<now, connVars, hsVars, addrVars, hdrVars, chainVars, extVars, misbVars>>
    /\ Observe

\* std::nullopt as the return value of FetchBlock
NoError == "nullopt"

\* the error messages of FetchBlock
FetchErrors ==
    {"Importing...", "Peer does not exist", "Pre-SegWit peer",
     "Already requested from this peer", "Peer not fully connected"}

\* FetchBlock gets as far as the call of BlockRequested
FetchMarks(p) == ~fImporting /\ p \in nodes /\ "WITNESS" \in m_their_services[p]

\* FetchBlock gets as far as the call of CConnman::ForNode
FetchAsks(p, h) == FetchMarks(p) /\ BlockRequestedRet(BlkState, p, h)

\* a FetchBlock that takes the request for made without looking at ForNode's
\* return value
FetchBlockRet_Unchecked(p, h, connected) ==
    IF fImporting THEN "Importing..."
    ELSE IF p \notin nodes THEN "Peer does not exist"
    ELSE IF "WITNESS" \notin m_their_services[p] THEN "Pre-SegWit peer"
    ELSE IF ~BlockRequestedRet(BlkState, p, h) THEN "Already requested from this peer"
    ELSE NoError

(* The return value of PeerManagerImpl::FetchBlock(peer_id, block_index);  *)
(* fImporting stands for fImporting and fReindex, connected for the return *)
(* value of CConnman::ForNode, which runs the function it is given only   *)
(* for a node it finds.                                                    *)
FetchBlockRet(p, h, connected) ==
    IF fImporting THEN "Importing..."
    ELSE IF p \notin nodes THEN "Peer does not exist"
    ELSE IF "WITNESS" \notin m_their_services[p] THEN "Pre-SegWit peer"
    ELSE IF ~BlockRequestedRet(BlkState, p, h) THEN "Already requested from this peer"
    ELSE IF ~connected THEN "Peer not fully connected"
    ELSE NoError

(* PeerManagerImpl::FetchBlock(peer_id, block_index): the block is marked  *)
(* as in flight from the peer by BlockRequested, and the function handed   *)
(* to ForNode pushes the getdata.  arg is the return value, ret whether it *)
(* is nullopt, pre the block.                                              *)
FetchBlock(p, h, connected) ==
    /\ SetBlk(IF FetchMarks(p) THEN BlockRequestedIn(BlkState, p, h) ELSE BlkState)
    /\ pushed' = IF FetchAsks(p, h) /\ connected THEN <<Msg(p, "getdata")>> ELSE <<>>
    /\ \E ret \in {FetchBlockRet(p, h, connected)} :
           last' = OpPre("FetchBlock", p, ret, ret = NoError, h)
    /\ UNCHANGED <<now, connVars, hsVars, addrVars, hdrVars, chainVars, extVars, misbVars>>
    /\ Observe

\* a call of RemoveBlockRequest(hash)
RemoveBlockRequest(h) ==
    /\ SetBlk(RemoveBlockRequestIn(BlkState, h))
    /\ last' = Op("RemoveBlockRequest", NoNode, h, FALSE)
    /\ pushed' = <<>>
    /\ UNCHANGED <<now, connVars, hsVars, addrVars, hdrVars, chainVars, extVars, misbVars>>
    /\ Observe

\* a call of Misbehaving(peer, howmuch) (howmuch > 0 is asserted)
Misbehaving(p, howmuch) ==
    /\ p \in nodes
    /\ howmuch > 0
    /\ m_misbehavior_score[p] + howmuch <= MaxScore
    /\ SetMisb(MisbehavingIn(MisbState, p, howmuch))
    /\ last' = OpPre("Misbehaving", p, howmuch, FALSE, m_misbehavior_score[p])
    /\ pushed' = <<>>
    /\ UNCHANGED <<now, connVars, hsVars, addrVars, hdrVars, chainVars, extVars, m_banman,
                   discouraged, blkVars>>
    /\ Observe

\* ------------------------------------------------- what SendMessages sends

(* What a call of SendMessages takes from outside the modelled state:     *)
(* whether a ping is to be sent (m_ping_queued or PING_INTERVAL has       *)
(* passed without a ping in flight), whether the timers                   *)
(* m_next_local_addr_send, m_next_addr_send, m_next_inv_send_time and     *)
(* m_next_send_feefilter have passed (they are drawn at random), the      *)
(* addresses m_addr_known reports as known, the index drawn by            *)
(* PushAddress, the queued transactions that are not announced (known to  *)
(* the peer, gone from the mempool or below its fee filter), and the      *)
(* transactions for which AlreadyHaveTx holds.                            *)
Due(ping, local, addr, known, rand, trickle, skip, have, feefilter) ==
    [ping |-> ping, local |-> local, addr |-> addr, known |-> known, rand |-> rand,
     trickle |-> trickle, skip |-> skip, have |-> have, feefilter |-> feefilter]

NothingDue == Due(FALSE, FALSE, FALSE, {}, 1, FALSE, {}, {}, FALSE)

\* the fields of the peer that SendMessages works on, the inventory vInv it
\* collects and the messages it has pushed
SendState(p) ==
    [addrs |-> m_addrs_to_send[p], sent_sendheaders |-> m_sent_sendheaders[p],
     best_sent |-> pindexBestHeaderSent[p], txinv |-> m_tx_inventory_to_send[p],
     fee |-> m_fee_filter_sent[p], tracker |-> m_txrequest,
     inv_blocks |-> m_blocks_for_inv_relay[p], inv_txs |-> {}, out |-> <<>>]

\* PeerManagerImpl::MaybeSendPing, the part after the timeout check
MaybeSendPingIn(p, due, s) ==
    IF due.ping THEN [s EXCEPT !.out = Append(@, Msg(p, "ping"))] ELSE s

(* PeerManagerImpl::MaybeSendAddr.  The addresses the filter knows are   *)
(* dropped, the others go out in one addr or addrv2 message.             *)
MaybeSendAddrIn(p, due, s) ==
    IF ~m_addr_relay_enabled[p] THEN s
    ELSE LET q == IF due.local /\ ~ibd
                  THEN PushAddressIn(s.addrs, LocalAddr, TRUE, due.rand)
                  ELSE s.addrs
         IN IF ~due.addr THEN [s EXCEPT !.addrs = q]
            ELSE IF \A i \in 1..Len(q) : q[i] \in due.known
                 THEN [s EXCEPT !.addrs = <<>>]
            ELSE [s EXCEPT !.addrs = <<>>,
                           !.out = Append(@, Msg(p, IF m_wants_addrv2[p]
                                                    THEN "addrv2" ELSE "addr"))]

\* PeerManagerImpl::MaybeSendSendHeaders
MaybeSendSendHeadersIn(p, s) ==
    IF /\ ~s.sent_sendheaders
       /\ GetCommonVersion(p) >= SENDHEADERS_VERSION
       /\ pindexBestKnownBlock[p] # NoBlock
       /\ pindexBestKnownBlock[p] > nMinimumChainWork
    THEN [s EXCEPT !.sent_sendheaders = TRUE, !.out = Append(@, Msg(p, "sendheaders"))]
    ELSE s

(* PeerHasHeader(state, pindex) for the block h of the active chain, 0   *)
(* the tip at start: it is an ancestor of the peer's best known block or *)
(* of the best header sent to it.  The blocks are those of the one chain *)
(* above the tip, the block at height h having the work TipWork + h.     *)
PeerHasHeader(p, best_sent, h) ==
    \/ pindexBestKnownBlock[p] # NoBlock /\ pindexBestKnownBlock[p] >= TipWork + h
    \/ best_sent # NoBlock /\ h <= best_sent

(* The loop over m_blocks_for_headers_relay in "Try sending block         *)
(* announcements via headers"; a holds pBestIndex, fFoundStartingHeader,  *)
(* vHeaders and fRevertToInv.  Every announced block is on the active     *)
(* chain.                                                                  *)
RECURSIVE HeadersToAnnounce(_, _, _, _, _)
HeadersToAnnounce(p, best_sent, q, i, a) ==
    IF i > Len(q) THEN a
    ELSE IF a.best # NoBlock /\ q[i] - 1 # a.best THEN [a EXCEPT !.revert = TRUE]
    ELSE LET b == [a EXCEPT !.best = q[i]]
         IN IF a.found
            THEN HeadersToAnnounce(p, best_sent, q, i + 1,
                                   [b EXCEPT !.headers = Append(@, q[i])])
            ELSE IF PeerHasHeader(p, best_sent, q[i])
            THEN HeadersToAnnounce(p, best_sent, q, i + 1, b)
            ELSE IF PeerHasHeader(p, best_sent, q[i] - 1)
            THEN HeadersToAnnounce(p, best_sent, q, i + 1,
                                   [b EXCEPT !.found = TRUE,
                                             !.headers = Append(@, q[i])])
            ELSE [b EXCEPT !.revert = TRUE]

(* SendMessages, "Try sending block announcements via headers": a         *)
(* cmpctblock or a headers message, or else the last block of the queue   *)
(* goes to the inventory.                                                  *)
AnnounceBlocks(p, s) ==
    LET q == m_blocks_for_headers_relay[p]
        fRevertToInv == \/ /\ ~fPreferHeaders[p]
                           /\ (~m_requested_hb_cmpctblocks[p] \/ Len(q) > 1)
                        \/ Len(q) > MAX_BLOCKS_TO_ANNOUNCE
        a0 == [best |-> NoBlock, found |-> FALSE, headers |-> <<>>,
               revert |-> fRevertToInv]
        a == IF fRevertToInv THEN a0 ELSE HeadersToAnnounce(p, s.best_sent, q, 1, a0)
        cmpct == ~a.revert /\ Len(a.headers) = 1 /\ m_requested_hb_cmpctblocks[p]
        hdrs == ~a.revert /\ a.headers # <<>> /\ ~cmpct /\ fPreferHeaders[p]
        revert == a.revert \/ (a.headers # <<>> /\ ~cmpct /\ ~hdrs)
    IN IF cmpct
       THEN [s EXCEPT !.best_sent = a.best, !.out = Append(@, Msg(p, "cmpctblock"))]
       ELSE IF hdrs
       THEN [s EXCEPT !.best_sent = a.best, !.out = Append(@, Msg(p, "headers"))]
       ELSE IF revert /\ q # <<>> /\ ~PeerHasHeader(p, s.best_sent, q[Len(q)])
       THEN [s EXCEPT !.inv_blocks = Append(@, q[Len(q)])]
       ELSE s

(* SendMessages, "Message: inventory", the transactions: on a trickle the *)
(* queue is emptied into vInv.  The BIP 35 mempool request and the limit   *)
(* INVENTORY_BROADCAST_MAX, which NumTxs does not reach, are left out.     *)
TxInventory(p, due, s) ==
    IF ~TxRelayOf(p) THEN s
    ELSE IF ~(cnode[p].noban \/ due.trickle) THEN s
    ELSE [s EXCEPT !.txinv = {}, !.inv_txs = s.txinv \ due.skip]

\* vInv, the blocks before the transactions, goes out as one inv message
SendInv(p, s) ==
    IF s.inv_blocks # <<>> \/ s.inv_txs # {}
    THEN [s EXCEPT !.out = Append(@, Msg(p, "inv"))]
    ELSE s

(* SendMessages, "Message: getdata (transactions)", the loop over the     *)
(* requestable transactions S: one the node already has is forgotten, the *)
(* others are marked as requested                                          *)
RECURSIVE RequestAll(_, _, _, _)
RequestAll(t, p, S, have) ==
    IF S = {} THEN t
    ELSE LET x == CHOOSE x \in S : TRUE
         IN RequestAll(IF x.tx \in have THEN ForgetTxHash(t, x)
                       ELSE RequestedTx(t, p, x, now + GETDATA_TX_INTERVAL),
                       p, S \ {x}, have)

(* The blocks and the transactions to request go out in one getdata       *)
(* message, the blocks first.                                              *)
SendGetData(p, due, blocks, s) ==
    LET g == GetRequestable(s.tracker, p)
        txs == {x \in g.requestable : x.tx \notin due.have}
    IN [s EXCEPT !.tracker = RequestAll(g.tracker, p, g.requestable, due.have),
                 !.out = IF blocks # <<>> \/ txs # {}
                         THEN Append(@, Msg(p, "getdata")) ELSE @]

(* PeerManagerImpl::MaybeSendFeefilter.  The node takes transactions, the *)
(* peer has no ForceRelay permission, and the mempool's minimum fee is    *)
(* not above the minimum relay fee: the filter is MAX_MONEY, rounded, in  *)
(* initial block download and the minimum relay fee otherwise.            *)
MaybeSendFeefilterIn(p, due, s) ==
    IF GetCommonVersion(p) < FEEFILTER_VERSION \/ IsBlockOnlyConn(cnode[p]) THEN s
    ELSE LET filterToSend == IF ibd THEN "MAX_FILTER" ELSE "min_relay_fee"
             timer == due.feefilter \/ (~ibd /\ s.fee = "MAX_FILTER")
         IN IF timer /\ filterToSend # s.fee
            THEN [s EXCEPT !.fee = filterToSend, !.out = Append(@, Msg(p, "feefilter"))]
            ELSE s

\* the parts of SendMessages in the order of the source, each with the
\* line it starts at
SendSteps ==
    <<"discourage", "ping", "addr", "sendheaders", "sync_start", "block_announce",
      "block_inv", "tx_inv", "stalling", "block_timeout", "headers_timeout", "evict",
      "getdata_blocks", "getdata_tx", "feefilter">>

\* the parts up to and including the one named
StepsUpTo(name) ==
    SubSeq(SendSteps, 1, CHOOSE i \in 1..Len(SendSteps) : SendSteps[i] = name)

\* SendMessages that goes on for a peer that is marked for disconnection
SendRun_Marked(p, inactive, due) ==
    LET fd == MaybeDiscourageFd(p)
        s0 == SendState(p)
        idle == [s |-> s0, r |-> SyncState(p), blk |-> BlkState,
                 common |-> pindexLastCommonBlock[p], fd |-> fd, announced |-> FALSE,
                 reason |-> "", ran |-> StepsUpTo("discourage")]
        s1 == MaybeSendPingIn(p, due, s0)
        s2 == MaybeSendSendHeadersIn(p, MaybeSendAddrIn(p, due, s1))
        r1 == SyncStart(p)
        s3 == [s2 EXCEPT !.out = @ \o GhPushed(p, r1)]
        s4 == SendInv(p, TxInventory(p, due, AnnounceBlocks(p, s3)))
        r == SyncPhases(p)
        d == GetDataBlocks(p)
        s5 == [s4 EXCEPT !.out = @ \o [i \in 1..(r.gh - r1.gh) |-> Msg(p, "getheaders")]]
        s6 == MaybeSendFeefilterIn(p, due, SendGetData(p, due, d.getdata, s5))
    IN IF MaybeDiscourageRet(p) \/ ~fSuccessfullyConnected[p] THEN idle
       ELSE IF inactive
       THEN [idle EXCEPT !.fd = [fd EXCEPT ![p] = TRUE], !.reason = "inactivity",
                         !.ran = StepsUpTo("ping")]
       ELSE IF r.reason # ""
       THEN [s |-> s4, r |-> r, blk |-> BlkState, common |-> pindexLastCommonBlock[p],
             fd |-> [fd EXCEPT ![p] = TRUE], announced |-> TRUE,
             reason |-> r.reason, ran |-> StepsUpTo(r.reason)]
       ELSE [s |-> s6, r |-> r, blk |-> d.blk, common |-> d.common,
             fd |-> IF r.disconnect THEN [fd EXCEPT ![p] = TRUE] ELSE fd,
             announced |-> TRUE, reason |-> "", ran |-> SendSteps]

(* What SendMessages(pto) does to the peer: s the send state, r the       *)
(* record of SyncPhases, d that of GetDataBlocks, fd CNode::fDisconnect.  *)
(* reason is "" when the function ran to its end or returned before       *)
(* MaybeSendPing, "inactivity" when MaybeSendPing timed the peer out,     *)
(* else the name of the check that returned.                               *)
SendRun(p, inactive, due) ==
    LET fd == MaybeDiscourageFd(p)
        s0 == SendState(p)
        idle == [s |-> s0, r |-> SyncState(p), blk |-> BlkState,
                 common |-> pindexLastCommonBlock[p], fd |-> fd, announced |-> FALSE,
                 reason |-> "", ran |-> StepsUpTo("discourage")]
        s1 == MaybeSendPingIn(p, due, s0)
        s2 == MaybeSendSendHeadersIn(p, MaybeSendAddrIn(p, due, s1))
        r1 == SyncStart(p)
        s3 == [s2 EXCEPT !.out = @ \o GhPushed(p, r1)]
        s4 == SendInv(p, TxInventory(p, due, AnnounceBlocks(p, s3)))
        r == SyncPhases(p)
        d == GetDataBlocks(p)
        s5 == [s4 EXCEPT !.out = @ \o [i \in 1..(r.gh - r1.gh) |-> Msg(p, "getheaders")]]
        s6 == MaybeSendFeefilterIn(p, due, SendGetData(p, due, d.getdata, s5))
    IN IF MaybeDiscourageRet(p) \/ ~fSuccessfullyConnected[p] \/ fd[p] THEN idle
       ELSE IF inactive
       THEN [idle EXCEPT !.fd = [fd EXCEPT ![p] = TRUE], !.reason = "inactivity",
                         !.ran = StepsUpTo("ping")]
       ELSE IF r.reason # ""
       THEN [s |-> s4, r |-> r, blk |-> BlkState, common |-> pindexLastCommonBlock[p],
             fd |-> [fd EXCEPT ![p] = TRUE], announced |-> TRUE,
             reason |-> r.reason, ran |-> StepsUpTo(r.reason)]
       ELSE [s |-> s6, r |-> r, blk |-> d.blk, common |-> d.common,
             fd |-> IF r.disconnect THEN [fd EXCEPT ![p] = TRUE] ELSE fd,
             announced |-> TRUE, reason |-> "", ran |-> SendSteps]

(* PeerManagerImpl::SendMessages(pto).  MaybeDiscourageAndDisconnect runs   *)
(* first; nothing more happens for a peer that has not completed the        *)
(* version handshake or is marked for disconnection.  inactive tells that   *)
(* MaybeSendPing marks the peer for disconnection, due what the timers and  *)
(* filters outside the model say.  arg is the reason of SendRun, ret        *)
(* MaybeDiscourageAndDisconnect's return value, pre whether the peer was    *)
(* marked for discouragement.                                               *)
SendMessagesDue(p, inactive, due) ==
    /\ p \in nodes
    /\ \E f \in {SendRun(p, inactive, due)} :
          /\ m_should_discourage' = [m_should_discourage EXCEPT ![p] = FALSE]
          /\ discouraged' = MaybeDiscourageBan(p)
          /\ fDisconnect' = f.fd
          /\ pushed' = f.s.out
          /\ last' = OpPre("SendMessages", p, f.reason, MaybeDiscourageRet(p),
                           m_should_discourage[p])
          /\ SetBlk(f.blk)
          /\ pindexLastCommonBlock' = [pindexLastCommonBlock EXCEPT ![p] = f.common]
          /\ m_last_getheaders_timestamp' = [m_last_getheaders_timestamp EXCEPT ![p] = f.r.ts]
          /\ fSyncStarted' = [fSyncStarted EXCEPT ![p] = f.r.started]
          /\ nSyncStarted' = f.r.count
          /\ m_headers_sync_timeout' = [m_headers_sync_timeout EXCEPT ![p] = f.r.timeout]
          /\ m_chain_sync' = [m_chain_sync EXCEPT ![p] = f.r.cs]
          /\ m_addrs_to_send' = [m_addrs_to_send EXCEPT ![p] = f.s.addrs]
          /\ m_sent_sendheaders' = [m_sent_sendheaders EXCEPT ![p] = f.s.sent_sendheaders]
          /\ m_blocks_for_headers_relay' =
                 IF f.announced THEN [m_blocks_for_headers_relay EXCEPT ![p] = <<>>]
                 ELSE m_blocks_for_headers_relay
          /\ m_blocks_for_inv_relay' =
                 IF f.announced THEN [m_blocks_for_inv_relay EXCEPT ![p] = <<>>]
                 ELSE m_blocks_for_inv_relay
          /\ pindexBestHeaderSent' = [pindexBestHeaderSent EXCEPT ![p] = f.s.best_sent]
          /\ m_tx_inventory_to_send' = [m_tx_inventory_to_send EXCEPT ![p] = f.s.txinv]
          /\ m_fee_filter_sent' = [m_fee_filter_sent EXCEPT ![p] = f.s.fee]
          /\ m_txrequest' = f.s.tracker
          /\ UNCHANGED <<m_headers_sync, nUnconnectingHeaders, pindexBestKnownBlock,
                         m_outbound_peers_with_protect_from_disconnect,
                         m_inv_triggered_getheaders_before_sync,
                         m_last_block_inv_triggering_headers_sync>>
          /\ UNCHANGED <<now, nodes, cnode, hsVars, addrVars, chainVars, nStatus,
                         m_misbehavior_score, m_banman, m_getaddr_recvd, m_getdata_requests,
                         m_best_height>>
          /\ ObserveRun(NoHand, f.ran)

\* SendMessages when no timer is due and no filter holds anything back
SendMessages(p, inactive) == SendMessagesDue(p, inactive, NothingDue)

(* PeerManagerImpl::ProcessMessages(pfrom) taking one message of the peer  *)
(* from vProcessMsg and handing it to ProcessMessage.  Nothing is taken    *)
(* from a peer that is marked for disconnection.  A message whose type is  *)
(* not in HandledTypes is delivered only before the handshake is complete, *)
(* where ProcessMessage returns at one of its gates.                       *)
ProcessMessage(p, msg) ==
    /\ p \in nodes
    /\ ~fDisconnect[p]
    /\ m_getdata_requests[p] = <<>>
    /\ msg.type \notin HandledTypes => (VersionGate(p) \/ ~fSuccessfullyConnected[p])
    /\ ProcessMessageIn(p, msg)
    /\ m_misbehavior_score'[p] <= MaxScore
    /\ m_addr_processed'[p] <= MaxAddrProcessed
    /\ nUnconnectingHeaders'[p] <= MaxUnconnecting
    /\ last' = OpPre("ProcessMessage", p, msg.type, FALSE, Payload(msg))
    /\ nStatus' = StatusAfter(p, msg)
    /\ m_txrequest' = TxRequestAfter(p, msg)
    /\ m_addrs_to_send' = AddrsAfter(p, msg)
    /\ m_getaddr_recvd' = IF GetAddrAnswered(p, msg)
                          THEN [m_getaddr_recvd EXCEPT ![p] = TRUE] ELSE m_getaddr_recvd
    /\ m_getdata_requests' = [m_getdata_requests EXCEPT ![p] = GetDataAfter(p, msg).queue]
    /\ m_blocks_for_inv_relay' = [m_blocks_for_inv_relay EXCEPT ![p] = BlocksForInvAfter(p, msg)]
    /\ pindexBestHeaderSent' = [pindexBestHeaderSent EXCEPT ![p] = BestHeaderSentAfter(p, msg)]
    /\ UNCHANGED <<now, nodes, cnode, chainVars, pindexLastCommonBlock, m_banman,
                   discouraged, m_sent_sendheaders, m_blocks_for_headers_relay,
                   m_tx_inventory_to_send, m_fee_filter_sent, m_best_height>>
    /\ ObserveAll(Handed(p, msg), <<>>, GetDataAfter(p, msg).served)

\* the message types whose handler reads its payload from vRecv with
\* operator>> or ReadCompactSize, which throw when the payload is short
DecodedTypes ==
    {"sendcmpct", "addr", "addrv2", "inv", "getdata", "getblocks", "getheaders",
     "cmpctblock", "headers", "block", "notfound"}

\* the part of a handler that runs before the read of the payload that
\* throws, for a handler that has only its read before it
ThrowsAtOnce == Ignored

\* the HEADERS branch that reads the payload before it clears the time
HeadersThrows_ReadFirst(p) == Ignored

\* the HEADERS branch up to the read that throws: the time of the last
\* getheaders is cleared before ReadCompactSize(vRecv)
HeadersThrows(p) ==
    IF fImporting THEN Ignored   \* "Unexpected headers message received"
    ELSE
        /\ m_last_getheaders_timestamp' = [m_last_getheaders_timestamp EXCEPT ![p] = 0]
        /\ pushed' = <<>>
        /\ UNCHANGED <<fDisconnect, hsVars, addrVars, m_misbehavior_score,
                       m_should_discourage, blkVars>>
        /\ UNCHANGED <<m_headers_sync, nUnconnectingHeaders, fSyncStarted, nSyncStarted,
                       m_headers_sync_timeout, pindexBestKnownBlock, m_chain_sync,
                       m_outbound_peers_with_protect_from_disconnect,
                       m_inv_triggered_getheaders_before_sync,
                       m_last_block_inv_triggering_headers_sync>>

(* PeerManagerImpl::ProcessMessages(pfrom) taking a message of type t whose *)
(* payload is too short for what the handler reads: ProcessMessage runs up  *)
(* to the read, which throws, and ProcessMessages catches and logs.  ret of *)
(* the step tells that an exception was caught, pre is the time of the last *)
(* getheaders of the peer before the step.                                  *)
ProcessMessageThrows(p, t) ==
    /\ p \in nodes
    /\ ~fDisconnect[p]
    /\ m_getdata_requests[p] = <<>>
    /\ t \in DecodedTypes
    /\ IF VersionGate(p) THEN Ignored
       ELSE IF t = "sendcmpct" THEN ThrowsAtOnce
       ELSE IF VerackGate(p) THEN Ignored
       ELSE IF t = "headers" THEN HeadersThrows(p)
       ELSE IF t \in {"cmpctblock", "block"} /\ fImporting THEN Ignored
       ELSE ThrowsAtOnce
    /\ last' = OpPre("ProcessMessage", p, t, TRUE, m_last_getheaders_timestamp[p])
    /\ UNCHANGED <<now, nodes, cnode, chainVars, extVars, m_banman, discouraged>>
    /\ Observe

\* ---------------------------------------------- high-bandwidth compact blocks
\* CNodeState::m_is_inbound of a peer that has a CNodeState
m_is_inbound(p) == IsInboundConn(cnode[p])

\* the entries of the list whose CNodeState exists and is not inbound
OutboundHB(list) == {i \in 1..Len(list) : list[i] \in nodes /\ ~m_is_inbound(list[i])}

\* std::swap of the front of the list and its second entry
SwapFront(list) == <<list[2], list[1]>> \o SubSeq(list, 3, Len(list))

\* the list without the entry nodeid
EraseHB(list, nodeid) == SelectSeq(list, LAMBDA q : q # nodeid)

\* adding an inbound peer without looking for the last outbound peer
KeepOutbound_Never(list, nodeid) == list

\* "If we're adding an inbound HB peer, make sure we're not removing our
\* last outbound HB peer in the process"
KeepOutbound(list, nodeid) ==
    IF /\ m_is_inbound(nodeid)
       /\ Len(list) >= 3 /\ Cardinality(OutboundHB(list)) = 1
       /\ list[1] \in nodes /\ ~m_is_inbound(list[1])
    THEN SwapFront(list)
    ELSE list

\* the node is not in -blocksonly mode
m_ignore_incoming_txs == FALSE

(* lNodesAnnouncingHeaderAndIDs after                                       *)
(* MaybeSetPeerAsAnnouncingHeaderAndIDs(nodeid); connected is whether       *)
(* CConnman::ForNode finds the node and runs the function it is given.      *)
AnnouncingAfter(list, nodeid, connected) ==
    IF m_ignore_incoming_txs THEN list
    ELSE IF nodeid \notin nodes \/ ~m_provides_cmpctblocks[nodeid] THEN list
    ELSE IF nodeid \in Range(list) THEN EraseHB(list, nodeid) \o <<nodeid>>
    ELSE LET kept == KeepOutbound(list, nodeid)
         IN IF ~connected THEN kept
            ELSE (IF Len(kept) >= 3 THEN Tail(kept) ELSE kept) \o <<nodeid>>

\* the sendcmpct messages it pushes: to the front of a full list, when
\* ForNode finds that node (stop), and to the peer
AnnouncingPushes(list, nodeid, connected, stop) ==
    IF \/ m_ignore_incoming_txs
       \/ nodeid \notin nodes \/ ~m_provides_cmpctblocks[nodeid]
       \/ nodeid \in Range(list) \/ ~connected
    THEN <<>>
    ELSE (IF Len(list) >= 3 /\ stop
          THEN <<Msg(KeepOutbound(list, nodeid)[1], "sendcmpct")>> ELSE <<>>)
         \o <<Msg(nodeid, "sendcmpct")>>

(* PeerManagerImpl::MaybeSetPeerAsAnnouncingHeaderAndIDs(nodeid), which    *)
(* BlockChecked calls for the peer a valid block came from.  ret is         *)
(* connected, pre the list before the call.                                 *)
MaybeSetPeerAsAnnouncingHeaderAndIDs(nodeid, connected, stop) ==
    /\ connected => nodeid \in nodes
    /\ lNodesAnnouncingHeaderAndIDs' =
           AnnouncingAfter(lNodesAnnouncingHeaderAndIDs, nodeid, connected)
    /\ pushed' = AnnouncingPushes(lNodesAnnouncingHeaderAndIDs, nodeid, connected, stop)
    /\ last' = OpPre("MaybeSetPeerAsAnnouncingHeaderAndIDs", nodeid, 0, connected,
                     lNodesAnnouncingHeaderAndIDs)
    /\ UNCHANGED <<now, connVars, hsVars, addrVars, hdrVars, chainVars, extVars, misbVars,
                   blkVars>>
    /\ ObserveHist(NoHand, <<>>, <<>>)

\* an observer starts a new window for the peer
StartWindow(p) ==
    /\ p \in nodes
    /\ win_count[p] > 0
    /\ win_start' = [win_start EXCEPT ![p] = now]
    /\ win_count' = [win_count EXCEPT ![p] = 0]
    /\ last' = Op("StartWindow", p, 0, FALSE)
    /\ pushed' = <<>>
    /\ UNCHANGED <<now, connVars, hsVars, addrVars, hdrVars, chainVars, extVars, misbVars, blkVars,
                   gh_time, gh_open, handed, ran, served, asked, threads, libVars,
                   lNodesAnnouncingHeaderAndIDs>>

\* the clock moves on
AdvanceTime(d) ==
    /\ now' = now + d
    /\ last' = Op("AdvanceTime", NoNode, d, FALSE)
    /\ pushed' = <<>>
    /\ UNCHANGED <<connVars, hsVars, addrVars, hdrVars, chainVars, extVars, misbVars, blkVars>>
    /\ Observe

(* PeerManagerImpl::UpdatedBlockTip(pindexNew, pindexFork, fInitialDownload) *)
(* for the tip moving up to the block new, pindexFork being the tip of the  *)
(* call before: outside initial block download the blocks above the fork,  *)
(* at most the last MAX_BLOCKS_TO_ANNOUNCE, are queued for every peer.      *)
UpdatedBlockTip(new) ==
    /\ new \in Hashes
    /\ new > m_best_height
    /\ HaveTxsDownloaded(new)
    /\ m_best_height' = new
    /\ LET first == Max(m_best_height + 1, new - MAX_BLOCKS_TO_ANNOUNCE + 1)
           vHashes == [i \in 1..(new - first + 1) |-> first + i - 1]
       IN m_blocks_for_headers_relay' =
              [p \in NodeIds |->
                  IF p \in nodes /\ ~ibd THEN m_blocks_for_headers_relay[p] \o vHashes
                  ELSE m_blocks_for_headers_relay[p]]
    /\ last' = Op("UpdatedBlockTip", NoNode, new, FALSE)
    /\ pushed' = <<>>
    /\ UNCHANGED <<now, connVars, hsVars, addrVars, hdrVars, chainVars, dlVars, misbVars,
                   blkVars, m_addrs_to_send, m_getaddr_recvd, m_sent_sendheaders,
                   m_blocks_for_inv_relay, pindexBestHeaderSent, m_tx_inventory_to_send,
                   m_fee_filter_sent, m_txrequest, m_getdata_requests>>
    /\ Observe

(* PeerManagerImpl::RelayTransaction(txid, wtxid) for the transaction tx;   *)
(* known: the peers whose m_tx_inventory_known_filter holds its hash       *)
RelayTransaction(tx, known) ==
    /\ m_tx_inventory_to_send' =
           [p \in NodeIds |->
               IF p \in nodes /\ TxRelayOf(p) /\ p \notin known
               THEN m_tx_inventory_to_send[p] \cup {tx}
               ELSE m_tx_inventory_to_send[p]]
    /\ last' = Op("RelayTransaction", NoNode, tx, FALSE)
    /\ pushed' = <<>>
    /\ UNCHANGED <<now, connVars, hsVars, addrVars, hdrVars, chainVars, dlVars, misbVars,
                   blkVars, m_addrs_to_send, m_getaddr_recvd, m_sent_sendheaders,
                   m_blocks_for_headers_relay, m_blocks_for_inv_relay, pindexBestHeaderSent,
                   m_fee_filter_sent, m_txrequest, m_getdata_requests, m_best_height>>
    /\ Observe

(* PeerManagerImpl::ProcessMessages(pfrom) for a peer with getdata requests *)
(* waiting: ProcessGetData runs on them.  If the queue is empty after it,   *)
(* the call goes on to take a message, which is the step ProcessMessage.    *)
ProcessGetData(p, env) ==
    /\ p \in nodes
    /\ ~fDisconnect[p]
    /\ m_getdata_requests[p] # <<>>
    /\ \E g \in {ProcessGetDataIn(p, m_getdata_requests[p], env)} :
          /\ m_getdata_requests' = [m_getdata_requests EXCEPT ![p] = g.queue]
          /\ pushed' = ServedMsgs(p, g.served)
          /\ last' = OpPre("ProcessGetData", p, env.room, FALSE, m_getdata_requests[p])
          /\ UNCHANGED <<now, connVars, hsVars, addrVars, hdrVars, chainVars, dlVars,
                         misbVars, blkVars, m_addrs_to_send, m_getaddr_recvd,
                         m_sent_sendheaders, m_blocks_for_headers_relay,
                         m_blocks_for_inv_relay, pindexBestHeaderSent,
                         m_tx_inventory_to_send, m_fee_filter_sent, m_txrequest,
                         m_best_height>>
          /\ ObserveAll(NoHand, <<>>, g.served)

\* ------------------------------------------------------------ specifications

\* ------------------------------------------------------- locks and threads

\* the mutexes of struct Peer that the lock order speaks of
PeerMutexes ==
    {"m_misbehavior_mutex", "m_block_inv_mutex", "m_bloom_filter_mutex",
     "m_tx_inventory_mutex", "m_addr_send_times_mutex", "m_getdata_requests_mutex",
     "m_headers_sync_mutex"}

\* the calls into the chain manager and into the connection manager
ChainManagerCalls == {"ActivateBestChain", "ProcessNewBlockHeaders"}
OutsideCalls == ChainManagerCalls \cup {"PushMessage"}

\* the threads: the message handler, the thread that delivers the validation
\* callbacks and the scheduled tasks, and the connection manager's
Threads == {"msghand", "scheduler", "net"}

\* a thread that runs nothing
Idle == [todo |-> <<>>, held |-> <<>>, at |-> ""]

\* the instructions of a function: LOCK(m), the end of its scope, a call
DoLock(mu) == [op |-> "lock", what |-> mu]
DoUnlock(mu) == [op |-> "unlock", what |-> mu]
DoCall(c) == [op |-> "call", what |-> c]

\* { LOCK(mu); body }
Locked(mu, body) == <<DoLock(mu)>> \o body \o <<DoUnlock(mu)>>

\* PeerManagerImpl::GetPeerRef, and RemovePeer likewise
LocksOfGetPeerRef == Locked("m_peer_mutex", <<>>)

\* PeerManagerImpl::Misbehaving, and MaybeDiscourageAndDisconnect likewise
LocksOfMisbehaving == Locked("m_misbehavior_mutex", <<>>)

\* a ProcessGetBlockData that keeps the bloom filter locked while it sends
\* the merkleblock
LocksOfProcessGetBlockData_FilterHeld(activate) ==
    Locked("m_most_recent_block_mutex", <<>>)
    \o Locked("cs_main", <<>>)
    \o (IF activate THEN <<DoCall("ActivateBestChain")>> ELSE <<>>)
    \o Locked("cs_main",
              <<DoCall("PushMessage")>>
              \o Locked("m_bloom_filter_mutex", <<DoCall("PushMessage")>>)
              \o Locked("m_block_inv_mutex", <<DoCall("PushMessage")>>))

(* PeerManagerImpl::ProcessGetBlockData: the most recent block is copied,   *)
(* the block index is looked up, ActivateBestChain is called for a block    *)
(* that is not validated yet, then, under cs_main, the block is pushed, or  *)
(* the bloom filter is applied and the merkleblock pushed, and the inv of   *)
(* the tip is pushed for the continuation block.                            *)
LocksOfProcessGetBlockData(activate) ==
    Locked("m_most_recent_block_mutex", <<>>)
    \o Locked("cs_main", <<>>)
    \o (IF activate THEN <<DoCall("ActivateBestChain")>> ELSE <<>>)
    \o Locked("cs_main",
              <<DoCall("PushMessage")>>
              \o Locked("m_bloom_filter_mutex", <<>>) \o <<DoCall("PushMessage")>>
              \o Locked("m_block_inv_mutex", <<DoCall("PushMessage")>>))

\* the items at the front of the getdata queue: a transaction the node has
\* or has not, a block, a block whose chain is still to be activated
FrontItems == {"tx", "notfound", "block", "block_to_activate"}

\* PeerManagerImpl::ProcessGetData for the item, called with
\* m_getdata_requests_mutex held
LocksOfProcessGetData(item) ==
    CASE item = "tx" ->
             <<DoCall("PushMessage")>> \o Locked("m_tx_inventory_mutex", <<>>)
                 \o Locked("cs_main", <<>>)
      [] item = "notfound" -> <<DoCall("PushMessage")>>
      [] item = "block" -> LocksOfProcessGetBlockData(FALSE)
      [] item = "block_to_activate" -> LocksOfProcessGetBlockData(TRUE)

\* a ProcessMessages that looks the peer up with the getdata queue locked
LocksOfProcessMessages_LookupInside(item) ==
    Locked("m_getdata_requests_mutex", LocksOfGetPeerRef \o LocksOfProcessGetData(item))
    \o Locked("cs_main", Locked("g_cs_orphans", <<>>))
    \o Locked("m_getdata_requests_mutex", <<>>)

\* PeerManagerImpl::ProcessMessages with a getdata queue that is not empty
LocksOfProcessMessages(item) ==
    LocksOfGetPeerRef
    \o Locked("m_getdata_requests_mutex", LocksOfProcessGetData(item))
    \o Locked("cs_main", Locked("g_cs_orphans", <<>>))
    \o Locked("m_getdata_requests_mutex", <<>>)

\* PeerManagerImpl::ProcessMessage for a getdata message
LocksOfGetDataMessage(item) ==
    LocksOfGetPeerRef \o Locked("m_getdata_requests_mutex", LocksOfProcessGetData(item))

(* PeerManagerImpl::ProcessMessage for a getblocks message: the block       *)
(* hashes are put into m_blocks_for_inv_relay one by one                    *)
LocksOfGetBlocksMessage ==
    LocksOfGetPeerRef
    \o Locked("cs_main", Locked("m_block_inv_mutex", <<>>))

(* PeerManagerImpl::ProcessHeadersMessage: the headers go through the       *)
(* peer's HeadersSyncState, which may ask for more, then to                 *)
(* ProcessNewBlockHeaders, and an invalid header is punished                *)
LocksOfProcessHeadersMessage ==
    LocksOfGetPeerRef
    \o Locked("m_headers_sync_mutex", <<DoCall("PushMessage")>>)
    \o Locked("cs_main", <<>>)
    \o <<DoCall("ProcessNewBlockHeaders")>>
    \o LocksOfGetPeerRef \o LocksOfMisbehaving

\* PeerManagerImpl::MaybeSendAddr
LocksOfMaybeSendAddr == Locked("m_addr_send_times_mutex", <<DoCall("PushMessage")>>)

(* PeerManagerImpl::SendMessages: MaybeDiscourageAndDisconnect, the ping,   *)
(* MaybeSendAddr, sendheaders, then under cs_main the getheaders, the       *)
(* block announcements, the block and transaction inventory, the getdata,  *)
(* and at last the feefilter                                                *)
LocksOfSendMessages ==
    LocksOfGetPeerRef
    \o LocksOfMisbehaving
    \o <<DoCall("PushMessage")>>
    \o LocksOfMaybeSendAddr
    \o <<DoCall("PushMessage")>>
    \o Locked("cs_main",
              <<DoCall("PushMessage")>>
              \o Locked("m_block_inv_mutex",
                        Locked("m_most_recent_block_mutex", <<>>) \o <<DoCall("PushMessage")>>)
              \o Locked("m_block_inv_mutex", <<DoCall("PushMessage")>>)
              \o Locked("m_tx_inventory_mutex",
                        Locked("m_bloom_filter_mutex", <<>>) \o <<DoCall("PushMessage")>>)
              \o <<DoCall("PushMessage"), DoCall("PushMessage")>>)
    \o <<DoCall("PushMessage")>>

\* PeerManagerImpl::UpdatedBlockTip
LocksOfUpdatedBlockTip == Locked("m_peer_mutex", Locked("m_block_inv_mutex", <<>>))

\* PeerManagerImpl::RelayTransaction
LocksOfRelayTransaction == Locked("m_peer_mutex", Locked("m_tx_inventory_mutex", <<>>))

\* PeerManagerImpl::RelayAddress, called for an addr message
LocksOfAddrMessage == LocksOfGetPeerRef \o Locked("m_peer_mutex", <<>>)

\* PeerManagerImpl::ProcessMessage for a tx message that the mempool accepts
LocksOfTxMessage ==
    LocksOfGetPeerRef \o Locked("cs_main", Locked("g_cs_orphans", LocksOfRelayTransaction))

\* PeerManagerImpl::BlockChecked with MaybePunishNodeForBlock
LocksOfBlockChecked == Locked("cs_main", LocksOfGetPeerRef \o LocksOfMisbehaving)

\* PeerManagerImpl::InitializeNode and FinalizeNode
LocksOfInitializeNode == Locked("cs_main", <<>>) \o Locked("m_peer_mutex", <<>>)
LocksOfFinalizeNode ==
    Locked("cs_main",
           LocksOfGetPeerRef \o LocksOfMisbehaving \o Locked("g_cs_orphans", <<>>))
    \o Locked("m_headers_presync_mutex", <<>>)

(* What the threads run: the message handler ProcessMessages and            *)
(* SendMessages; the validation callbacks and the scheduled tasks come on   *)
(* a thread of their own; the connection manager creates and finalizes the  *)
(* peers.                                                                   *)
ProgramsOf(t) ==
    CASE t = "msghand" ->
             {LocksOfProcessMessages(item) : item \in FrontItems}
             \cup {LocksOfGetDataMessage(item) : item \in FrontItems}
             \cup {LocksOfGetBlocksMessage, LocksOfProcessHeadersMessage, LocksOfAddrMessage,
                   LocksOfTxMessage, LocksOfSendMessages}
      [] t = "scheduler" ->
             {LocksOfUpdatedBlockTip, LocksOfRelayTransaction, LocksOfBlockChecked}
      [] t = "net" -> {LocksOfInitializeNode, LocksOfFinalizeNode}

\* what the steps of the threads leave alone
engineVars ==
    <<now, connVars, hsVars, addrVars, hdrVars, chainVars, extVars, misbVars, blkVars,
      lNodesAnnouncingHeaderAndIDs, last, pushed, histVars>>

\* the mutexes a thread holds
HeldBy_Thread(t) == Range(threads[t].held)

\* the last element of held that is mu is taken out
ReleaseOne(held, mu) ==
    LET i == CHOOSE k \in 1..Len(held) :
                 held[k] = mu /\ \A j \in (k + 1)..Len(held) : held[j] # mu
    IN SubSeq(held, 1, i - 1) \o SubSeq(held, i + 1, Len(held))

\* an idle thread enters one of its functions
BeginFunction(t, prog) ==
    /\ threads[t] = Idle
    /\ prog \in ProgramsOf(t)
    /\ threads' = [threads EXCEPT ![t].todo = prog]
    /\ UNCHANGED <<engineVars, libVars>>

\* LOCK(mu): the thread waits while another thread holds the mutex
AcquireLock(t) ==
    /\ threads[t].todo # <<>> /\ threads[t].at = ""
    /\ Head(threads[t].todo).op = "lock"
    /\ \A u \in Threads \ {t} : Head(threads[t].todo).what \notin HeldBy_Thread(u)
    /\ threads' = [threads EXCEPT ![t].todo = Tail(@),
                                  ![t].held = Append(@, Head(threads[t].todo).what)]
    /\ UNCHANGED <<engineVars, libVars>>

\* the end of the scope of a LOCK
ReleaseLock(t) ==
    /\ threads[t].todo # <<>> /\ threads[t].at = ""
    /\ Head(threads[t].todo).op = "unlock"
    /\ threads' = [threads EXCEPT ![t].todo = Tail(@),
                                  ![t].held = ReleaseOne(@, Head(threads[t].todo).what)]
    /\ UNCHANGED <<engineVars, libVars>>

\* the thread goes into a call of the chain manager or of CConnman
EnterCall(t) ==
    /\ threads[t].todo # <<>> /\ threads[t].at = ""
    /\ Head(threads[t].todo).op = "call"
    /\ threads' = [threads EXCEPT ![t].todo = Tail(@), ![t].at = Head(threads[t].todo).what]
    /\ UNCHANGED <<engineVars, libVars>>

\* the call returns
ReturnFromCall(t) ==
    /\ threads[t].at # ""
    /\ threads' = [threads EXCEPT ![t].at = ""]
    /\ UNCHANGED <<engineVars, libVars>>

\* no peer is connected; every field holds its initial value
InitPeersOn(hashes) ==
    /\ nodes = {}
    /\ cnode = [p \in NodeIds |-> NoConn]
    /\ fDisconnect = [p \in NodeIds |-> FALSE]
    /\ nVersion = [p \in NodeIds |-> 0]
    /\ fSuccessfullyConnected = [p \in NodeIds |-> FALSE]
    /\ m_their_services = [p \in NodeIds |-> {}]
    /\ fPreferHeaders = [p \in NodeIds |-> FALSE]
    /\ m_provides_cmpctblocks = [p \in NodeIds |-> FALSE]
    /\ lNodesAnnouncingHeaderAndIDs = <<>>
    /\ m_requested_hb_cmpctblocks = [p \in NodeIds |-> FALSE]
    /\ m_wtxid_relay = [p \in NodeIds |-> FALSE]
    /\ m_wtxid_relay_peers = 0
    /\ m_wants_addrv2 = [p \in NodeIds |-> FALSE]
    /\ fPreferredDownload = [p \in NodeIds |-> FALSE]
    /\ m_num_preferred_download_peers = 0
    /\ m_addr_relay_enabled = [p \in NodeIds |-> FALSE]
    /\ m_getaddr_sent = [p \in NodeIds |-> FALSE]
    /\ m_addr_token_bucket = [p \in NodeIds |-> TokenUnit]
    /\ m_addr_token_timestamp = [p \in NodeIds |-> 0]
    /\ m_addr_processed = [p \in NodeIds |-> 0]
    /\ m_misbehavior_score = [p \in NodeIds |-> 0]
    /\ m_should_discourage = [p \in NodeIds |-> FALSE]
    /\ discouraged = {}
    /\ mapBlocksInFlight = [h \in hashes |-> NoNode]
    /\ vBlocksInFlight = [p \in NodeIds |-> <<>>]
    /\ nBlocksInFlight = [p \in NodeIds |-> 0]
    /\ m_downloading_since = [p \in NodeIds |-> 0]
    /\ m_stalling_since = [p \in NodeIds |-> 0]
    /\ m_peers_downloading_from = 0
    /\ last = NoOp
    /\ pushed = <<>>
    /\ win_start = [p \in NodeIds |-> 0]
    /\ win_count = [p \in NodeIds |-> 0]
    /\ m_last_getheaders_timestamp = [p \in NodeIds |-> 0]
    /\ m_headers_sync = [p \in NodeIds |-> NoSync]
    /\ nUnconnectingHeaders = [p \in NodeIds |-> 0]
    /\ fSyncStarted = [p \in NodeIds |-> FALSE]
    /\ nSyncStarted = 0
    /\ m_headers_sync_timeout = [p \in NodeIds |-> 0]
    /\ pindexBestKnownBlock = [p \in NodeIds |-> NoBlock]
    /\ m_chain_sync = [p \in NodeIds |-> NoChainSync]
    /\ m_outbound_peers_with_protect_from_disconnect = 0
    /\ m_inv_triggered_getheaders_before_sync = [p \in NodeIds |-> FALSE]
    /\ m_last_block_inv_triggering_headers_sync = 0
    /\ gh_time = [p \in NodeIds |-> 0]
    /\ gh_open = [p \in NodeIds |-> FALSE]
    /\ handed = NoHand
    /\ pindexLastCommonBlock = [p \in NodeIds |-> NoBlock]
    /\ m_addrs_to_send = [p \in NodeIds |-> <<>>]
    /\ m_getaddr_recvd = [p \in NodeIds |-> FALSE]
    /\ m_sent_sendheaders = [p \in NodeIds |-> FALSE]
    /\ m_blocks_for_headers_relay = [p \in NodeIds |-> <<>>]
    /\ m_blocks_for_inv_relay = [p \in NodeIds |-> <<>>]
    /\ pindexBestHeaderSent = [p \in NodeIds |-> NoBlock]
    /\ m_tx_inventory_to_send = [p \in NodeIds |-> {}]
    /\ m_fee_filter_sent = [p \in NodeIds |-> "0"]
    /\ m_txrequest = {}
    /\ m_getdata_requests = [p \in NodeIds |-> <<>>]
    /\ m_best_height = 0
    /\ ran = <<>>
    /\ served = <<>>
    /\ asked = {}
    /\ threads = [t \in Threads |-> Idle]

\* the block index holds the blocks of Hashes
InitPeers == InitPeersOn(Hashes)

\* the node has loaded its chain, which is current
InitState ==
    /\ InitPeers
    /\ LibUnused
    /\ fImporting = FALSE
    /\ ibd = FALSE
    /\ best_header_recent = TRUE
    /\ nStatus = [h \in Hashes |-> "none"]

\* --- block download bookkeeping
InitBlocks ==
    /\ InitState
    /\ now = 1
    /\ m_banman = TRUE

BlkConn == Conn("outbound_full_relay", FALSE, FALSE, "remote")

NextBlocks ==
    \/ \E p \in BlkNodes : InitializeNode(p, BlkConn)
    \/ \E p \in NodeIds : FinalizeNode(p)
    \/ \E p \in NodeIds, h \in Hashes : BlockRequested(p, h)
    \/ \E h \in Hashes : RemoveBlockRequest(h)
    \/ (now < MaxTime /\ AdvanceTime(1))

SpecBlocks == InitBlocks /\ [][NextBlocks]_vars

\* --- misbehavior scoring and discouragement
InitMisb ==
    /\ InitState
    /\ now = 1
    /\ m_banman \in BOOLEAN

\* the connections of the misbehavior model
MisbConns ==
    {Conn("inbound", FALSE, FALSE, "remote"), Conn("inbound", TRUE, FALSE, "remote"),
     Conn("manual", FALSE, FALSE, "remote"), Conn("inbound", FALSE, FALSE, "local")}

\* penalties PeerManagerImpl assigns
Penalties == {20, 100}

NextMisb ==
    \/ \E p \in MisbNodes, c \in MisbConns : InitializeNode(p, c)
    \/ \E p \in NodeIds : FinalizeNode(p)
    \/ \E p \in NodeIds, howmuch \in Penalties : Misbehaving(p, howmuch)
    \/ \E p \in NodeIds, inactive \in BOOLEAN : SendMessages(p, inactive)

SpecMisb == InitMisb /\ [][NextMisb]_vars

\* --- version handshake
InitHandshake ==
    /\ InitState
    /\ now = 1
    /\ m_banman = TRUE

HsNodes == {1}

HsConns ==
    {Conn("inbound", FALSE, FALSE, "remote"),
     Conn("outbound_full_relay", FALSE, FALSE, "remote"),
     Conn("block_relay", FALSE, FALSE, "remote"),
     Conn("feeler", FALSE, FALSE, "remote")}

VersionMsg(v, sv, ok) ==
    [type |-> "version", nVersion |-> v, services |-> sv, nonce_ok |-> ok]

HsMessages ==
    {VersionMsg(v, {"NETWORK", "WITNESS"}, TRUE) : v \in {209, 70012, 70016}}
    \cup {VersionMsg(70016, {}, FALSE)}
    \cup {[type |-> t] : t \in {"verack", "sendheaders", "wtxidrelay", "sendaddrv2",
                                "mempool"}}
    \cup {[type |-> "inv", oversize |-> FALSE, hash |-> 1, have |-> FALSE, work |-> 0]}
    \cup {[type |-> "sendcmpct", hb |-> TRUE, version |-> v] : v \in {1, 2}}
    \cup {[type |-> "addr", n |-> 1000, good |-> TRUE]}

NextHandshake ==
    \/ \E p \in HsNodes, c \in HsConns : InitializeNode(p, c)
    \/ \E p \in NodeIds : FinalizeNode(p)
    \/ \E p \in NodeIds, msg \in HsMessages : ProcessMessage(p, msg)

SpecHandshake == InitHandshake /\ [][NextHandshake]_vars

\* --- address rate limiting
InitAddr ==
    /\ InitState
    /\ now = 1
    /\ m_banman = TRUE

AddrNodes == {1}

AddrConns ==
    {Conn("inbound", FALSE, FALSE, "remote"),
     Conn("inbound", FALSE, TRUE, "remote"),
     Conn("outbound_full_relay", FALSE, FALSE, "remote")}

\* the times at which the environment of the address model acts
AddrTimes == {1, 2, MaxAddrTime - 1, MaxAddrTime}

AddrMessages ==
    {VersionMsg(70016, {"NETWORK", "WITNESS"}, TRUE), [type |-> "verack"]}
    \cup {[type |-> "addr", n |-> n, good |-> TRUE] : n \in {500, 501, 1000}}
    \cup {[type |-> "addr", n |-> 500, good |-> FALSE]}

NextAddr ==
    \/ \E p \in AddrNodes, c \in AddrConns : InitializeNode(p, c)
    \/ \E p \in NodeIds : FinalizeNode(p)
    \/ \E p \in NodeIds, msg \in AddrMessages : ProcessMessage(p, msg)
    \/ \E p \in NodeIds : StartWindow(p)
    \/ \E t \in AddrTimes : (t > now /\ AdvanceTime(t - now))

SpecAddr == InitAddr /\ [][NextAddr]_vars

\* --- headers synchronization
HdrNodes == {1}

\* the headers model stops a run of unconnecting headers messages here
HdrUnconnecting == 1

HdrConns ==
    {Conn("inbound", TRUE, FALSE, "remote"),
     Conn("outbound_full_relay", FALSE, FALSE, "remote")}

\* the times at which the environment of the headers model acts: the first
\* is more than HEADERS_RESPONSE_TIME after the epoch, the others are at and
\* just past HEADERS_RESPONSE_TIME and the chain sync timeouts after it
HdrStart == HEADERS_RESPONSE_TIME + 1
HdrTimes ==
    {HdrStart, HdrStart + HEADERS_RESPONSE_TIME, HdrStart + HEADERS_RESPONSE_TIME + 1,
     HdrStart + CHAIN_SYNC_TIMEOUT + HEADERS_RESPONSE_TIME + 2}

\* the node is importing blocks, or in initial block download with an old
\* best header, or its chain is current
Importing == <<TRUE, TRUE, FALSE>>
InIBD == <<FALSE, TRUE, FALSE>>
Current == <<FALSE, FALSE, TRUE>>

InitChainIndex(cs, status) ==
    /\ InitPeers
    /\ LibUnused
    /\ now = HdrStart
    /\ m_banman = TRUE
    /\ nStatus = [h \in Hashes |-> status]
    /\ \E c \in cs :
           /\ fImporting = c[1]
           /\ ibd = c[2]
           /\ best_header_recent = c[3]

\* none of the blocks of Hashes is in the block index
InitChain(cs) == InitChainIndex(cs, "none")

InitHeaders == InitChain({Importing, InIBD, Current})

HeadersMsg(n, pow, cont, conn, start, work, known, sync_ok, early, valid, fetch) ==
    [type |-> "headers", count |-> n, pow_ok |-> pow, continuous |-> cont,
     connects |-> conn, start_work |-> start, work |-> work,
     known_ancestor |-> known, sync_ok |-> sync_ok, release_early |-> early,
     valid |-> valid, fetch |-> fetch]

\* headers that connect to the block index at a block of work start_work
Connecting(count, start_work, work, known, sync_ok, valid, fetch) ==
    HeadersMsg(count, TRUE, TRUE, TRUE, start_work, work, known, sync_ok, FALSE, valid,
               fetch)

\* headers whose first header has a previous block that is not in the index
Unconnecting(count, work, sync_ok, early) ==
    HeadersMsg(count, TRUE, TRUE, FALSE, 0, work, FALSE, sync_ok, early, "ok", <<>>)

HdrHandshake == {VersionMsg(70016, {"NETWORK", "WITNESS"}, TRUE), [type |-> "verack"]}

\* messages that make the node ask for headers
HdrMessages ==
    HdrHandshake
    \cup {Unconnecting(1, 1, FALSE, FALSE),
          Connecting(MAX_HEADERS_RESULTS, 0, 1, FALSE, TRUE, "ok", <<>>),
          Connecting(MAX_HEADERS_RESULTS, TipWork, 1, FALSE, FALSE, "ok", <<>>)}
    \cup {[type |-> "inv", oversize |-> FALSE, hash |-> 1, have |-> FALSE, work |-> 0]}
    \cup {[type |-> "cmpctblock", prev |-> "unknown"]}

NextHeaders ==
    \/ \E p \in HdrNodes, c \in HdrConns : (now = HdrStart /\ InitializeNode(p, c))
    \/ \E p \in NodeIds : FinalizeNode(p)
    \/ \E p \in NodeIds, msg \in HdrMessages :
           (ProcessMessage(p, msg) /\ nUnconnectingHeaders'[p] <= HdrUnconnecting)
    \/ \E p \in NodeIds, inactive \in BOOLEAN : SendMessages(p, inactive)
    \/ \E t \in HdrTimes : (t > now /\ AdvanceTime(t - now))

SpecHeaders == InitHeaders /\ [][NextHeaders]_vars

\* --- headers of chains with little work
LowWorkMessages ==
    HdrHandshake
    \cup {HeadersMsg(0, TRUE, TRUE, FALSE, 0, 0, FALSE, FALSE, FALSE, "ok", <<>>)}
    \cup {Unconnecting(MAX_HEADERS_RESULTS, 1, TRUE, FALSE),
          Unconnecting(MAX_HEADERS_RESULTS, 1, TRUE, TRUE),
          Unconnecting(MAX_HEADERS_RESULTS, nMinimumChainWork, TRUE, FALSE)}
    \cup {Connecting(MAX_HEADERS_RESULTS, 0, 1, FALSE, TRUE, "ok", <<>>),
          Connecting(MAX_HEADERS_RESULTS, 0, 1, FALSE, FALSE, "ok", <<>>),
          Connecting(1, 0, 1, FALSE, FALSE, "ok", <<>>),
          Connecting(1, 0, 1, TRUE, FALSE, "ok", <<>>),
          Connecting(1, TipWork, 1, FALSE, FALSE, "ok", <<1>>)}

NextLowWork ==
    \/ \E p \in HdrNodes, c \in HdrConns : InitializeNode(p, c)
    \/ \E p \in NodeIds : FinalizeNode(p)
    \/ \E p \in NodeIds, msg \in LowWorkMessages :
           (ProcessMessage(p, msg) /\ nUnconnectingHeaders'[p] <= HdrUnconnecting)

InitLowWork == InitChain({InIBD, Current})

SpecLowWork == InitLowWork /\ [][NextLowWork]_vars

\* --- runs of unconnecting headers
UnconnectingMessages ==
    HdrHandshake
    \cup {Unconnecting(1, 1, FALSE, FALSE),
          Unconnecting(MAX_BLOCKS_TO_ANNOUNCE + 1, 1, FALSE, FALSE),
          Connecting(1, TipWork, 1, FALSE, FALSE, "ok", <<>>)}

NextUnconnecting ==
    \/ \E p \in HdrNodes, c \in HdrConns : InitializeNode(p, c)
    \/ \E p \in NodeIds : FinalizeNode(p)
    \/ \E p \in NodeIds, msg \in UnconnectingMessages : ProcessMessage(p, msg)
    \/ \E p \in NodeIds, inactive \in BOOLEAN : SendMessages(p, inactive)

InitUnconnecting == InitChain({Importing, Current})

SpecUnconnecting == InitUnconnecting /\ [][NextUnconnecting]_vars

\* --- the start of the headers synchronization with two peers
SyncNodes == {1, 2}

SyncConns == {Conn("outbound_full_relay", FALSE, FALSE, "remote")}

SyncMessages ==
    HdrHandshake
    \cup {[type |-> "inv", oversize |-> FALSE, hash |-> h, have |-> FALSE, work |-> 0] :
              h \in Hashes}
    \cup {Unconnecting(1, 1, FALSE, FALSE)}

InitSyncStart == InitChain({InIBD, Current})

NextSyncStart ==
    \/ \E p \in SyncNodes, c \in SyncConns : InitializeNode(p, c)
    \/ \E p \in NodeIds : FinalizeNode(p)
    \/ \E p \in NodeIds, msg \in SyncMessages :
           (ProcessMessage(p, msg) /\ nUnconnectingHeaders'[p] <= HdrUnconnecting)
    \/ \E p \in NodeIds : SendMessages(p, FALSE)

SpecSyncStart == InitSyncStart /\ [][NextSyncStart]_vars

\* --- block download: the window and the peer that stalls it
StallNodes == {1, 2}

\* the times of the stalling model: the start, when the peers connect and
\* shake hands, BLOCK_STALLING_TIMEOUT later and the first second past it
StallTimes ==
    {HdrStart, HdrStart + BLOCK_STALLING_TIMEOUT, HdrStart + BLOCK_STALLING_TIMEOUT + 1}

\* the peers announce the last block above the tip and deliver blocks
StallMessages ==
    {[type |-> "inv", oversize |-> FALSE, hash |-> NumBlocks, have |-> FALSE,
      work |-> TipWork + NumBlocks]}
    \cup {[type |-> "block", hash |-> h, accepted |-> TRUE] : h \in Hashes}

\* the headers of the blocks above the tip are in the block index
InitStall == InitChainIndex({Current}, "tree")

NextStall ==
    \/ \E p \in StallNodes, c \in SyncConns : (now = HdrStart /\ InitializeNode(p, c))
    \/ \E p \in NodeIds : FinalizeNode(p)
    \/ \E p \in NodeIds, msg \in HdrHandshake : (now = HdrStart /\ ProcessMessage(p, msg))
    \/ \E p \in NodeIds, msg \in StallMessages : ProcessMessage(p, msg)
    \/ \E p \in NodeIds : SendMessages(p, FALSE)
    \/ \E t \in StallTimes : (t > now /\ AdvanceTime(t - now))

SpecStall == InitStall /\ [][NextStall]_vars

\* --- eviction of outbound peers whose chain stays behind
\* the times of the eviction model: the start, the first second past
\* CHAIN_SYNC_TIMEOUT and the first second past HEADERS_RESPONSE_TIME after it
EvictTimes ==
    {HdrStart, HdrStart + CHAIN_SYNC_TIMEOUT + 1,
     HdrStart + CHAIN_SYNC_TIMEOUT + HEADERS_RESPONSE_TIME + 2}

\* the peer announces a block the node lacks, or sends a header on the tip
EvictMessages ==
    HdrHandshake
    \cup {[type |-> "inv", oversize |-> FALSE, hash |-> 1, have |-> FALSE, work |-> 0],
          Connecting(1, TipWork, 1, FALSE, FALSE, "ok", <<>>)}

InitEvict == InitChain({Current})

NextEvict ==
    \/ \E p \in HdrNodes, c \in HdrConns : (now = HdrStart /\ InitializeNode(p, c))
    \/ \E p \in NodeIds : FinalizeNode(p)
    \/ \E p \in NodeIds, msg \in EvictMessages : ProcessMessage(p, msg)
    \/ \E p \in NodeIds : SendMessages(p, FALSE)
    \/ \E t \in EvictTimes : (t > now /\ AdvanceTime(t - now))

SpecEvict == InitEvict /\ [][NextEvict]_vars

\* --- the order of the parts of SendMessages
SendNodes == {1, 2}

\* the peer whose SendMessages is followed through all its steps; it is then
\* the only peer
SendSolo == CHOOSE p \in SendNodes : \A q \in SendNodes : q <= p

\* the start, when the peers connect and shake hands, and the first second
\* at which a block requested at the start has timed out
SendTimes == {HdrStart, HdrStart + nPowTargetSpacing + 1}

\* a peer announces the last block above the tip
SendBlockInv == [type |-> "inv", oversize |-> FALSE, hash |-> NumBlocks,
                 have |-> FALSE, work |-> TipWork + NumBlocks]

\* the lone peer asks for headers announcements, announces the first block,
\* delivers blocks and announces a transaction
SendFromSolo ==
    {[type |-> "sendheaders"], TxInv("tx", 1, FALSE),
     [type |-> "inv", oversize |-> FALSE, hash |-> 1, have |-> FALSE, work |-> TipWork + 1]}
    \cup {[type |-> "block", hash |-> h, accepted |-> TRUE] : h \in Hashes}

\* every timer is due, the filters hold nothing back
AllDue == Due(TRUE, TRUE, TRUE, {}, 1, TRUE, {}, {}, TRUE)

InitSend == InitChainIndex({Current}, "tree")

\* the peer has connected and completed the handshake
SendReady(p) == p \in nodes /\ fSuccessfullyConnected[p]

\* the lone peer is ready
SoloReady == nodes = {SendSolo} /\ SendReady(SendSolo)

(* Either peer 2 connects alone, and its SendMessages runs with every      *)
(* timer due, or peer 1 connects first and peer 2 after it, both announce   *)
(* the last block and peer 2 waits for the blocks in flight from peer 1.    *)
NextSend ==
    \/ \E c \in SyncConns : (nodes = {} /\ InitializeNode(1, c))
    \/ \E c \in SyncConns : ((1 \in nodes => SendReady(1)) /\ InitializeNode(SendSolo, c))
    \/ \E p \in SendNodes, msg \in HdrHandshake : (~SendReady(p) /\ ProcessMessage(p, msg))
    \/ \E p \in SendNodes : (1 \in nodes /\ SendReady(p) /\ ProcessMessage(p, SendBlockInv))
    \/ \E msg \in SendFromSolo : (SoloReady /\ ProcessMessage(SendSolo, msg))
    \/ \E new \in Hashes : (SoloReady /\ UpdatedBlockTip(new))
    \/ (SoloReady /\ RelayTransaction(2, {}))
    \/ (SoloReady /\ SendMessagesDue(SendSolo, FALSE, AllDue))
    \/ \E p \in SendNodes : (1 \in nodes /\ SendReady(p) /\ SendMessages(p, FALSE))
    \/ \E t \in SendTimes : (t > now /\ AdvanceTime(t - now))

SpecSend == InitSend /\ [][NextSend]_vars

\* ------------------------------------------------------------------ claims

\* The in-flight map, the per-peer in-flight lists and the per-peer counts
\* agree: a hash is in the list of exactly the peer the map names.
InFlightConsistent ==
    /\ \A h \in Hashes : mapBlocksInFlight[h] \in nodes \cup {NoNode}
    /\ \A p \in NodeIds, h \in Hashes :
           (h \in Range(vBlocksInFlight[p])) <=> (mapBlocksInFlight[h] = p)
    /\ \A p \in NodeIds :
           /\ nBlocksInFlight[p] = Len(vBlocksInFlight[p])
           /\ Cardinality(Range(vBlocksInFlight[p])) = Len(vBlocksInFlight[p])

\* a BlockRequested(B, h) step taken while h is in flight from another peer A
\* leaves h in flight from B only, and A with one block less
OwnershipMoves ==
    \A A \in NodeIds, B \in NodeIds, h \in Hashes :
        (/\ mapBlocksInFlight[h] = A
         /\ A # B
         /\ last'.op = "BlockRequested" /\ last'.peer = B /\ last'.arg = h)
        => /\ mapBlocksInFlight'[h] = B
           /\ h \in Range(vBlocksInFlight'[B])
           /\ h \notin Range(vBlocksInFlight'[A])
           /\ nBlocksInFlight'[A] = nBlocksInFlight[A] - 1
           /\ last'.ret = TRUE

\* C1: a block hash is in flight from at most one peer at any time, and a
\* BlockRequested(B, hash) while the hash is in flight from another peer A
\* moves ownership: afterwards the hash is in flight from B only, it is no
\* longer in A's in-flight list, and A's in-flight count is one lower.
C1_OneOwnerAndMove == []InFlightConsistent /\ [][OwnershipMoves]_vars

\* a block has just moved from a connected peer to another one
C1_Witness ==
    /\ last.op = "BlockRequested"
    /\ last.ret = TRUE
    /\ last.pre \in nodes \ {last.peer}
    /\ mapBlocksInFlight[last.arg] = last.peer

\* C2: a BlockRequested(peer, hash) while the block is still in flight from
\* that same peer is a no-op: it returns false and leaves the peer's in-flight
\* count, its in-flight list and the global in-flight map (and the rest of
\* the download bookkeeping) unchanged.
C2_SecondRequestNoOp ==
    [][\A p \in NodeIds, h \in Hashes :
          (/\ mapBlocksInFlight[h] = p
           /\ last'.op = "BlockRequested" /\ last'.peer = p /\ last'.arg = h)
          => (last'.ret = FALSE /\ UNCHANGED blkVars)]_vars

\* a repeated request has just been answered with false
C2_Witness ==
    /\ last.op = "BlockRequested"
    /\ last.ret = FALSE
    /\ last.pre = last.peer
    /\ mapBlocksInFlight[last.arg] = last.peer
    /\ nBlocksInFlight[last.peer] = 1

\* the step is a call of operation o on peer p
Did(o, p) == last'.op = o /\ last'.peer = p

(* C7: "a peer's misbehaviour score never exceeds 100".  As stated it is    *)
(* the invariant below; Misbehaving adds howmuch with no upper limit, so a  *)
(* peer at 80 that earns 100 more stands at 180.                            *)
C7_ScoreNeverExceeds100 ==
    \A p \in NodeIds : m_misbehavior_score[p] <= DISCOURAGEMENT_THRESHOLD

(* C7, as the code has it: every Misbehaving(p, howmuch) adds exactly      *)
(* howmuch to the score of p, whatever the score was (the score has no     *)
(* upper limit and may pass 100), it never lowers a score, and it marks p  *)
(* for discouragement exactly when the score passes from below 100 to 100  *)
(* or more.                                                                *)
C7_ScoreAccumulatesUncapped ==
    [][\A p \in NodeIds : Did("Misbehaving", p) =>
          /\ m_misbehavior_score'[p] = m_misbehavior_score[p] + last'.arg
          /\ m_misbehavior_score'[p] > m_misbehavior_score[p]
          /\ m_should_discourage'[p] =
                (m_should_discourage[p]
                 \/ (m_misbehavior_score[p] < DISCOURAGEMENT_THRESHOLD
                     /\ m_misbehavior_score'[p] >= DISCOURAGEMENT_THRESHOLD))
          /\ \A q \in NodeIds \ {p} :
                /\ m_misbehavior_score'[q] = m_misbehavior_score[q]
                /\ m_should_discourage'[q] = m_should_discourage[q]]_vars

\* a Misbehaving call has just put a score above the threshold
C7_Witness ==
    /\ last.op = "Misbehaving"
    /\ m_misbehavior_score[last.peer] > DISCOURAGEMENT_THRESHOLD
    /\ m_misbehavior_score[last.peer] = last.pre + last.arg

(* C8: "crossing the misbehaviour threshold marks the peer for              *)
(* discouragement, and the next tick_send for that peer disconnects it and  *)
(* adds its address to the discouragement filter".  As stated: a            *)
(* SendMessages for a marked peer leaves it disconnected and its address    *)
(* discouraged.                                                             *)
C8_MarkedPeerDisconnectedAndDiscouraged ==
    [][\A p \in NodeIds :
          (Did("SendMessages", p) /\ m_should_discourage[p]) =>
              (fDisconnect'[p] /\ cnode[p].addr \in discouraged')]_vars

(* C8, as the code has it.  Crossing the threshold marks the peer, and the *)
(* mark stays until SendMessages runs for the peer or the peer is          *)
(* finalized.  SendMessages for a marked peer clears the mark and then:    *)
(*  - a peer with NoBan permission or a manual connection is neither       *)
(*    disconnected nor discouraged;                                        *)
(*  - a peer on a local address is disconnected, its address is not        *)
(*    discouraged;                                                         *)
(*  - any other peer: every connection to its address is marked for        *)
(*    disconnection, and the address is added to the discouragement filter *)
(*    when a ban manager is configured.                                    *)
(* SendMessages for an unmarked peer changes none of this.                 *)
C8_Marks ==
    \A p \in NodeIds :
        /\ (Did("Misbehaving", p)
              /\ m_misbehavior_score[p] < DISCOURAGEMENT_THRESHOLD
              /\ m_misbehavior_score'[p] >= DISCOURAGEMENT_THRESHOLD)
           => m_should_discourage'[p]
        /\ (m_should_discourage[p] /\ ~Did("SendMessages", p) /\ ~Did("FinalizeNode", p))
           => m_should_discourage'[p]

C8_Punishes ==
    \A p \in NodeIds : Did("SendMessages", p) =>
        /\ ~m_should_discourage'[p]
        /\ last'.ret = (m_should_discourage[p] /\ ~cnode[p].noban
                          /\ cnode[p].conn_type # "manual")
        /\ ~last'.ret => UNCHANGED <<fDisconnect, discouraged>>
        /\ (last'.ret /\ cnode[p].addr \in LocalAddrs) =>
              /\ fDisconnect' = [fDisconnect EXCEPT ![p] = TRUE]
              /\ UNCHANGED discouraged
        /\ (last'.ret /\ cnode[p].addr \notin LocalAddrs) =>
              /\ \A q \in NodeIds :
                    fDisconnect'[q] =
                        (fDisconnect[q] \/ (q \in nodes /\ cnode[q].addr = cnode[p].addr))
              /\ discouraged' = IF m_banman THEN discouraged \cup {cnode[p].addr}
                                ELSE discouraged

C8_DiscourageWithExemptions == [][C8_Marks /\ C8_Punishes]_vars

\* SendMessages has just disconnected and discouraged a peer whose score
\* had crossed the threshold
C8_Witness ==
    /\ last.op = "SendMessages"
    /\ last.pre = TRUE
    /\ last.ret = TRUE
    /\ m_misbehavior_score[last.peer] >= DISCOURAGEMENT_THRESHOLD
    /\ fDisconnect[last.peer]
    /\ cnode[last.peer].addr \in discouraged
    /\ ~m_should_discourage[last.peer]

\* the step is ProcessMessage of a message of type t from peer p
Received(p, t) == Did("ProcessMessage", p) /\ last'.arg = t

\* the message was ignored: no state change, nothing pushed, no misbehavior
WasIgnored == pushed' = <<>> /\ UNCHANGED handlerVars

(* C3: "before the handshake completes (version and verack received), only *)
(* version, verack, wtxidrelay and sendaddrv2 are accepted; every other    *)
(* message type is ignored".  As stated: a message of any other type that  *)
(* arrives before verack changes no state and pushes nothing.              *)
C3_OnlyFourTypesBeforeVerack ==
    [][\A p \in NodeIds :
          (Did("ProcessMessage", p) /\ ~fSuccessfullyConnected[p]
             /\ last'.arg \notin {"version", "verack", "wtxidrelay", "sendaddrv2"})
          => WasIgnored]_vars

(* C3, as the code has it.  Before version is received every message but   *)
(* version is ignored.  After version and before verack, the accepted      *)
(* types are verack, sendheaders, sendcmpct, wtxidrelay and sendaddrv2 (a   *)
(* second version is ignored); sendheaders and sendcmpct take effect       *)
(* then; every other type is ignored.                                      *)
C3_PreVerackAccepted ==
    {"verack", "sendheaders", "sendcmpct", "wtxidrelay", "sendaddrv2"}

C3_GatesBeforeVerack ==
    [][\A p \in NodeIds :
          (Did("ProcessMessage", p) /\ ~fSuccessfullyConnected[p]) =>
              /\ (nVersion[p] = 0 /\ last'.arg # "version") => WasIgnored
              /\ (nVersion[p] # 0 /\ last'.arg \notin C3_PreVerackAccepted) => WasIgnored
              /\ (nVersion[p] # 0 /\ last'.arg = "sendheaders") => fPreferHeaders'[p]]_vars

\* an addr message has arrived between version and verack and left no trace
C3_Witness ==
    /\ last.op = "ProcessMessage"
    /\ last.arg = "addr"
    /\ nVersion[last.peer] # 0
    /\ ~fSuccessfullyConnected[last.peer]
    /\ ~m_addr_relay_enabled[last.peer]
    /\ pushed = <<>>

\* the rate-limited peers: connected, without NetPermissionFlags::Addr
RateLimitedPeers == {p \in nodes : ~cnode[p].addr_perm}

(* C5: "over any window of T seconds, the number of addresses from a peer  *)
(* without Addr permission that get past the rate limiter is at most       *)
(* 1000 + 0.1 * T".  Both sides are multiplied by TokenUnit.               *)
C5_AtMost1000PlusRate ==
    \A p \in RateLimitedPeers :
        win_count[p] * TokenUnit
            <= MAX_ADDR_TO_SEND * TokenUnit + ((now - win_start[p]) * TokenUnit) \div 10

(* C5, as the code has it: the bucket starts at 1 token and the getaddr    *)
(* credit adds MAX_ADDR_TO_SEND on top of it, so the number of addresses   *)
(* processed in a window of T seconds is at most 1001 + 0.1 * T.           *)
C5_AtMost1001PlusRate ==
    \A p \in RateLimitedPeers :
        win_count[p] * TokenUnit
            <= (MAX_ADDR_TO_SEND + 1) * TokenUnit
               + ((now - win_start[p]) * TokenUnit) \div 10

\* 1001 addresses of a rate-limited peer were processed within one second
C5_Witness ==
    \E p \in RateLimitedPeers :
        /\ win_count[p] = MAX_ADDR_TO_SEND + 1
        /\ now = win_start[p]
        /\ last.op = "ProcessMessage" /\ last.arg = "addr" /\ last.peer = p

(* C6: "the address token bucket always satisfies 0 <= bucket <= 1000,     *)
(* including after the one-off +1000 credit of an outbound getaddr".       *)
C6_BucketWithin1000 ==
    \A p \in NodeIds :
        /\ 0 <= m_addr_token_bucket[p]
        /\ m_addr_token_bucket[p] <= MAX_ADDR_PROCESSING_TOKEN_BUCKET * TokenUnit

(* C6, as the code has it: 0 <= bucket <= 1001.  The getaddr credit is     *)
(* added to the initial token without a limit, so the bucket of a peer we  *)
(* sent getaddr to stands at 1001 until its addresses arrive; only those   *)
(* peers ever exceed 1000, and the refill of the addr handler never lifts  *)
(* a bucket above 1000.                                                    *)
C6_BucketRange ==
    \A p \in NodeIds :
        /\ 0 <= m_addr_token_bucket[p]
        /\ m_addr_token_bucket[p] <= (MAX_ADDR_TO_SEND + 1) * TokenUnit
        /\ m_addr_token_bucket[p] > MAX_ADDR_PROCESSING_TOKEN_BUCKET * TokenUnit
           => (p \in nodes /\ ~IsInboundConn(cnode[p]) /\ nVersion[p] # 0)

C6_RefillCapped ==
    \A p \in NodeIds :
        (Received(p, "addr") /\ m_addr_token_bucket'[p] > m_addr_token_bucket[p])
        => m_addr_token_bucket'[p] <= MAX_ADDR_PROCESSING_TOKEN_BUCKET * TokenUnit

C6_BucketWithin1001 == []C6_BucketRange /\ [][C6_RefillCapped]_vars

\* the version handler has just credited the bucket of an outbound peer
C6_Witness ==
    /\ last.op = "ProcessMessage"
    /\ last.arg = "version"
    /\ m_getaddr_sent[last.peer]
    /\ m_addr_token_bucket[last.peer] = (MAX_ADDR_TO_SEND + 1) * TokenUnit

\* the step pushes a getheaders to q / receives a headers message of q
SendsGetHeaders(q) == GetHeadersTo(q) # {}
ReceivesHeaders(q) == Received(q, "headers")

(* C4: "for each peer there is at most one getheaders in flight: after a   *)
(* getheaders has been sent to a peer, no further getheaders is sent to    *)
(* that peer until a headers message from that peer has been received or   *)
(* more than HEADERS_RESPONSE_TIME has passed since the last one was       *)
(* sent".  A step pushes at most one getheaders to a peer, and it pushes   *)
(* one only if none is open, or the step is the receipt of a headers       *)
(* message of the peer, or the last one is more than HEADERS_RESPONSE_TIME *)
(* old.                                                                    *)
C4_OneGetHeaders ==
    \A q \in NodeIds :
        SendsGetHeaders(q) =>
            /\ Cardinality(GetHeadersTo(q)) = 1
            /\ \/ ~gh_open[q]
               \/ ReceivesHeaders(q)
               \/ now' - gh_time[q] > HEADERS_RESPONSE_TIME

C4_OneGetHeadersInFlight == [][C4_OneGetHeaders]_vars

\* a compact block with an unknown previous block arrived while a getheaders
\* was open and not older than HEADERS_RESPONSE_TIME: no getheaders went out
C4_Witness ==
    \E q \in nodes :
        /\ last.op = "ProcessMessage" /\ last.peer = q /\ last.arg = "cmpctblock"
        /\ fSuccessfullyConnected[q] /\ ~fImporting /\ ~ibd
        /\ gh_open[q]
        /\ now - gh_time[q] <= HEADERS_RESPONSE_TIME
        /\ pushed = <<>>

(* C9: "headers received from a peer whose chain has cumulative work below *)
(* the anti-DoS threshold are never handed to the chain manager until a    *)
(* headers sync with that peer has shown that the chain reaches the        *)
(* threshold".  As stated: headers of a chain with less work than          *)
(* GetAntiDoSWorkThreshold() reach ProcessNewBlockHeaders only as the      *)
(* headers a HeadersSyncState releases in REDOWNLOAD.                      *)
C9_LowWorkNeverHanded ==
    handed.low_work => handed.via = "redownload"

(* C9 with the exemptions the code comments name: the headers of a peer    *)
(* with NoBan permission and headers whose last one is a known ancestor of *)
(* the best header or the tip skip the work check.  It does not hold       *)
(* either: TryLowWorkHeadersSync returns what the new HeadersSyncState     *)
(* made of the message, and when that is a failure the headers go on to    *)
(* ProcessNewBlockHeaders.                                                 *)
C9_LowWorkHandedOnlyIfExempt ==
    (handed.low_work /\ handed.via = "message")
        => (cnode[handed.peer].noban \/ last.pre.known)

\* the unconnecting-headers counter of q reaches a multiple of the limit
ReachesLimit(q) == (nUnconnectingHeaders[q] + 1) % MAX_UNCONNECTING_HEADERS = 0

\* the step is the receipt, from a peer that completed the handshake and is
\* not in a low-work headers sync, of a headers message with one header of
\* valid proof of work whose previous block is unknown
OneUnconnectingHeader(q) ==
    /\ ReceivesHeaders(q)
    /\ last'.pre.one_unconnecting
    /\ last'.pre.valid_pow
    /\ fSuccessfullyConnected[q]
    /\ m_headers_sync[q] = NoSync
    /\ ~fImporting

(* C10: "when a peer sends 10 successive headers messages, each carrying   *)
(* one header whose previous block is unknown, the node answers each with  *)
(* a getheaders and records exactly one misbehavior event of 20 points, on *)
(* the 10th message (in general: 20 points each time the per-peer          *)
(* unconnecting-headers counter reaches a multiple of                      *)
(* MAX_UNCONNECTING_HEADERS)".  Each such message adds one to the counter  *)
(* and is answered with one getheaders; the score grows by 20 when the     *)
(* counter reaches a multiple of 10 and stays as it is otherwise.          *)
C10_UnconnectingStep ==
    \A q \in NodeIds :
        OneUnconnectingHeader(q) =>
            /\ nUnconnectingHeaders'[q] = nUnconnectingHeaders[q] + 1
            /\ Cardinality(GetHeadersTo(q)) = 1
            /\ m_misbehavior_score'[q] =
                   m_misbehavior_score[q] + (IF ReachesLimit(q) THEN 20 ELSE 0)

C10_TwentyPointsEveryTenth == [][C10_UnconnectingStep]_vars

\* the 10th unconnecting header of a peer that did nothing else wrong: it is
\* answered with a getheaders and the peer's score is 20
C10_Witness ==
    \E q \in nodes :
        /\ last.op = "ProcessMessage" /\ last.peer = q /\ last.arg = "headers"
        /\ last.pre.one_unconnecting
        /\ nUnconnectingHeaders[q] = MAX_UNCONNECTING_HEADERS
        /\ m_misbehavior_score[q] = 20
        /\ pushed = <<Msg(q, "getheaders")>>

\* the peers other than p whose headers synchronization has started
SyncingOthers(p) == {q \in nodes \ {p} : fSyncStarted[q]}

(* C11: "while the node is in initial block download and its best header   *)
(* is more than 24 hours behind wall-clock time, only one peer at a time    *)
(* gets a getheaders: no getheaders is sent to a second peer while another  *)
(* peer's headers sync is in progress".  As stated: in that chain state no  *)
(* step pushes a getheaders to a peer while another peer has fSyncStarted.  *)
(* The INV branch sends one to a peer that announces a new block.           *)
C11_OnePeerGetsGetHeaders ==
    [][\A p \in NodeIds :
          (ibd /\ ~best_header_recent /\ SendsGetHeaders(p)) => SyncingOthers(p) = {}]_vars

(* C11, as the code has it: while the best header is more than 24 hours     *)
(* behind, SendMessages starts the headers synchronization (fSyncStarted,   *)
(* the initial getheaders) with a peer only when no other peer's has        *)
(* started, and nSyncStarted counts the peers whose synchronization has     *)
(* started; a getheaders to a second peer answers a message of that peer   *)
(* (a block inv, headers that do not connect) and does not start its       *)
(* synchronization.                                                         *)
C11_OneInitialSync ==
    [][/\ nSyncStarted' = Cardinality({q \in nodes' : fSyncStarted'[q]})
       /\ \A p \in NodeIds :
             /\ (~best_header_recent /\ ~fSyncStarted[p] /\ fSyncStarted'[p]) =>
                    /\ Did("SendMessages", p)
                    /\ SendsGetHeaders(p)
                    /\ SyncingOthers(p) = {}
             /\ (ibd /\ ~best_header_recent /\ SendsGetHeaders(p)
                     /\ SyncingOthers(p) # {}) =>
                    /\ Did("ProcessMessage", p)
                    /\ last'.arg \in {"inv", "headers"}
                    /\ fSyncStarted'[p] = fSyncStarted[p]]_vars

\* SendMessages ran for a second peer that could serve the headers while the
\* first peer's synchronization was in progress, and sent it no getheaders
C11_Witness ==
    \E p \in nodes :
        /\ last.op = "SendMessages" /\ last.peer = p
        /\ ibd /\ ~best_header_recent
        /\ fSuccessfullyConnected[p] /\ CanServeBlocksOf(m_their_services[p])
        /\ ~fDisconnect[p]
        /\ ~fSyncStarted[p]
        /\ SyncingOthers(p) # {}
        /\ pushed = <<>>

\* the first block above the tip whose data the node lacks is in flight from p:
\* the download window cannot move before p delivers it
HoldsUpWindow(p) ==
    \E h \in Hashes :
        /\ nStatus[h] # "data"
        /\ \A k \in Hashes : k < h => nStatus[k] = "data"
        /\ mapBlocksInFlight[h] = p

\* SendMessages disconnected the peer with "Peer=%d is stalling block download"
DisconnectsForStalling(p) == Did("SendMessages", p) /\ last'.arg = "stalling"

(* C12: "a peer is disconnected for stalling only if it has been marked as  *)
(* the peer holding up the download window for more than                    *)
(* BLOCK_STALLING_TIMEOUT (2 s) and, at the moment of the disconnect, the   *)
(* window still cannot move; a peer whose stalled block has arrived in the  *)
(* meantime is not disconnected for stalling".  A peer carries a stalling   *)
(* mark only while the first missing block is in flight from it, and a      *)
(* disconnect for stalling finds the mark more than 2 s old.                *)
C12_StallingDisconnect ==
    [][\A p \in NodeIds :
          /\ m_stalling_since'[p] # 0 => (p \in nodes' /\ HoldsUpWindow(p)')
          /\ DisconnectsForStalling(p) =>
                 /\ fDisconnect'[p]
                 /\ m_stalling_since[p] # 0
                 /\ now - m_stalling_since[p] > BLOCK_STALLING_TIMEOUT
                 /\ HoldsUpWindow(p)]_vars

\* a peer was marked, delivered the block within the timeout and, past the
\* timeout, went through SendMessages without being disconnected
C12_Witness ==
    \E p \in nodes :
        /\ last.op = "SendMessages" /\ last.peer = p /\ last.arg = ""
        /\ ~fDisconnect[p]
        /\ now > HdrStart + BLOCK_STALLING_TIMEOUT
        /\ nStatus[1] = "data"
        /\ m_stalling_since[p] = 0
        /\ \E q \in nodes \ {p} : pindexLastCommonBlock[q] = 0 /\ nBlocksInFlight[q] = 0

\* a peer was disconnected for stalling
C12_Disconnected ==
    \E p \in nodes : last.op = "SendMessages" /\ last.peer = p /\ last.arg = "stalling"

\* ConsiderEviction marks the peer: "sending getheaders to outbound peer=%d to
\* verify chain work"
MarksChainSync(p) ==
    ~m_chain_sync[p].m_sent_getheaders /\ m_chain_sync'[p].m_sent_getheaders

\* ConsiderEviction disconnects the peer: "Disconnecting outbound peer %d for
\* old chain"
EvictsForOldChain(p) ==
    Did("SendMessages", p) /\ last'.arg = "" /\ ~fDisconnect[p] /\ fDisconnect'[p]

\* the peer is one ConsiderEviction looks at, and its chain is behind the tip
LagsUnprotected(p) ==
    /\ ~m_chain_sync[p].m_protect
    /\ IsOutboundOrBlockRelayConn(cnode[p])
    /\ fSyncStarted'[p]
    /\ (pindexBestKnownBlock[p] = NoBlock \/ pindexBestKnownBlock[p] < TipWork)

(* C13: "for an unprotected outbound peer whose best known block has less   *)
(* work than our tip: once it has lagged for CHAIN_SYNC_TIMEOUT (20 min)    *)
(* one getheaders is sent to it, and it is disconnected by consider_eviction*)
(* only if it still lags HEADERS_RESPONSE_TIME (2 min) after that           *)
(* getheaders was sent; it is never disconnected by this rule without that  *)
(* getheaders having been sent first".  As stated: the step that finds the  *)
(* chain sync timeout passed sends a getheaders, and a peer disconnected    *)
(* for its old chain was sent one at that step or later.                    *)
C13_GetHeadersSentFirst ==
    [][\A p \in NodeIds :
          /\ MarksChainSync(p) => SendsGetHeaders(p)
          /\ EvictsForOldChain(p) =>
                 gh_time[p] >= m_chain_sync[p].m_timeout - HEADERS_RESPONSE_TIME]_vars

(* C13, as the code has it: the step that finds the timeout passed calls    *)
(* MaybeSendGetHeaders, which sends nothing when a getheaders went to the   *)
(* peer within the last HEADERS_RESPONSE_TIME; either way the peer is       *)
(* marked and given HEADERS_RESPONSE_TIME.  It is disconnected for its old  *)
(* chain only when it is marked, still behind the tip and that time has     *)
(* passed, so a getheaders went to it at the mark or at most                *)
(* HEADERS_RESPONSE_TIME before it.                                         *)
C13_EvictionAfterGetHeaders ==
    [][\A p \in NodeIds :
          /\ MarksChainSync(p) =>
                 /\ Did("SendMessages", p)
                 /\ LagsUnprotected(p)
                 /\ m_chain_sync[p].m_timeout > 0 /\ now > m_chain_sync[p].m_timeout
                 /\ m_chain_sync'[p].m_timeout = now + HEADERS_RESPONSE_TIME
                 /\ Cardinality(GetHeadersTo(p)) <= 1
                 /\ \/ SendsGetHeaders(p)
                    \/ /\ gh_time[p] > 0
                       /\ now - gh_time[p] <= HEADERS_RESPONSE_TIME
          /\ EvictsForOldChain(p) =>
                 /\ LagsUnprotected(p)
                 /\ m_chain_sync[p].m_sent_getheaders
                 /\ now > m_chain_sync[p].m_timeout
                 /\ ~SendsGetHeaders(p)
                 /\ gh_time[p] > 0
                 /\ gh_time[p] >= m_chain_sync[p].m_timeout - 2 * HEADERS_RESPONSE_TIME]_vars

\* a peer was disconnected for its old chain more than HEADERS_RESPONSE_TIME
\* after it was marked
C13_Witness ==
    \E p \in nodes :
        /\ last.op = "SendMessages" /\ last.peer = p /\ last.arg = ""
        /\ fDisconnect[p]
        /\ m_chain_sync[p].m_sent_getheaders
        /\ now > m_chain_sync[p].m_timeout
        /\ pindexBestKnownBlock[p] = NoBlock

\* --- the getdata queue of a peer
GetDataNodes == {1}

\* the items a peer asks for
GetDataItems == {Item("tx", tx) : tx \in Txs} \cup {Item("block", 1)}

\* the numbers of items of a getdata message
GetDataLens == {1, 2, 3}

GetDataSeqs(lens) == UNION {[1..n -> GetDataItems] : n \in lens}

\* the send buffer is full when the call starts
SendPaused == GetDataEnv({}, FALSE, 0)

\* what the calls of ProcessGetData meet: the mempool holds none of the
\* transactions, the last or all of them, the block is on disk or not, the
\* send buffer fills up after any number of items or not at all
GetDataEnvs ==
    {GetDataEnv(found, have_block, room) :
        found \in {{}, {NumTxs}, Txs}, have_block \in BOOLEAN, room \in 0..3}

\* a getdata message of one item meets any of these, one of more items
\* arrives while the send buffer is full; one message is oversized
GetDataMessages ==
    {GetDataMsg(items, env) : items \in GetDataSeqs({1}), env \in GetDataEnvs}
    \cup {GetDataMsg(items, SendPaused) : items \in GetDataSeqs(GetDataLens)}
    \cup {[GetDataMsg(<<Item("tx", 1)>>, SendPaused) EXCEPT !.oversize = TRUE]}

InitGetData == InitChainIndex({Current}, "tree")

NextGetData ==
    \/ \E p \in GetDataNodes, c \in HdrConns : InitializeNode(p, c)
    \/ \E p \in NodeIds : FinalizeNode(p)
    \/ \E p \in NodeIds, msg \in HdrHandshake \cup GetDataMessages : ProcessMessage(p, msg)
    \/ \E p \in NodeIds, env \in GetDataEnvs : ProcessGetData(p, env)

SpecGetData == InitGetData /\ [][NextGetData]_vars

\* --- the teardown of a peer
\* peer 1 is an outbound peer, peer 2 an inbound one
TeardownConn(p) ==
    IF p = 1 THEN Conn("outbound_full_relay", FALSE, FALSE, "remote")
    ELSE Conn("inbound", FALSE, FALSE, "remote")

\* peer 1 negotiates wtxid relay, announces a transaction and sends a header
\* on the tip
TeardownFromFirst ==
    {[type |-> "wtxidrelay"], TxInv("wtx", 1, FALSE),
     Connecting(1, TipWork, 1, FALSE, FALSE, "ok", <<>>)}

InitTeardown == InitChainIndex({Current}, "tree")

\* both peers shake hands and announce the last block above the tip
NextTeardown ==
    \/ \E p \in {1, 2} : InitializeNode(p, TeardownConn(p))
    \/ \E p \in NodeIds : FinalizeNode(p)
    \/ \E p \in NodeIds, msg \in HdrHandshake \cup {SendBlockInv} : ProcessMessage(p, msg)
    \/ \E msg \in TeardownFromFirst : ProcessMessage(1, msg)
    \/ \E p \in NodeIds : SendMessages(p, FALSE)

SpecTeardown == InitTeardown /\ [][NextTeardown]_vars

\* --- tx announcements by inv
TxInvNodes == {1}

TxInvConns ==
    {Conn("inbound", FALSE, FALSE, "remote"),
     Conn("outbound_full_relay", FALSE, FALSE, "remote"),
     Conn("block_relay", FALSE, FALSE, "remote")}

\* the peer negotiates wtxid relay or not and announces transactions by
\* txid and by wtxid
TxInvMessages ==
    HdrHandshake
    \cup {[type |-> "wtxidrelay"]}
    \cup {TxInv(kind, tx, have) : kind \in {"tx", "wtx"}, tx \in Txs, have \in BOOLEAN}
    \cup {[TxInv("tx", 1, FALSE) EXCEPT !.oversize = TRUE]}

InitTxInv == InitChainIndex({Current, InIBD}, "tree")

NextTxInv ==
    \/ \E p \in TxInvNodes, c \in TxInvConns : InitializeNode(p, c)
    \/ \E p \in NodeIds : FinalizeNode(p)
    \/ \E p \in NodeIds, msg \in TxInvMessages : ProcessMessage(p, msg)
    \/ \E p \in NodeIds : SendMessages(p, FALSE)

SpecTxInv == InitTxInv /\ [][NextTxInv]_vars

\* --- the addresses queued for a peer
\* peer 2, an inbound peer, connects first, stays and sends the addresses that
\* are relayed to peer 1; peer 1 asks for addresses, on an inbound or an
\* outbound connection, and may leave and come back
AddrQueueConns(p) ==
    IF p = 1 THEN {Conn("inbound", FALSE, FALSE, "remote"),
                   Conn("outbound_full_relay", FALSE, FALSE, "remote")}
    ELSE {Conn("inbound", FALSE, FALSE, "remote")}

\* the indices PushAddress draws: the first and the last of a full queue
AddrRands == {1, MAX_ADDR_TO_SEND}

\* CConnman::GetAddresses returns no address, two, or MAX_ADDR_TO_SEND or one
\* less
GetAddrMessages ==
    {GetAddrMsg(n, rand) :
        n \in {0, 2, MAX_ADDR_TO_SEND - 1, MAX_ADDR_TO_SEND}, rand \in AddrRands}

\* one address that is not among those of GetAddresses, relayed to peer 1
RelayedAddr == MAX_ADDR_TO_SEND + 1
AddrRelayMessages ==
    {AddrRelayMsg(1, {1}, RelayedAddr, fresh, rand) : fresh \in BOOLEAN, rand \in AddrRands}

\* single addresses, relayed or local, are queued for peer 1 while its queue
\* is short or all but full
QueueAtEdge == Len(m_addrs_to_send[1]) \notin 2..(MAX_ADDR_TO_SEND - 2)

\* peer 2 has not relayed an address yet
RelayWanted == m_addr_processed[2] = 0 /\ QueueAtEdge

\* what SendMessages finds due: the local address, the addr message or both
AddrDues ==
    {Due(FALSE, local, addr, {}, rand, FALSE, {}, {}, FALSE) :
        local \in BOOLEAN, addr \in BOOLEAN, rand \in AddrRands}

InitAddrQueue == InitChainIndex({Current}, "tree")

NextAddrQueue ==
    \/ \E c \in AddrQueueConns(2) : (nodes = {} /\ InitializeNode(2, c))
    \/ \E c \in AddrQueueConns(1) : (SendReady(2) /\ InitializeNode(1, c))
    \/ FinalizeNode(1)
    \/ \E p \in NodeIds, msg \in HdrHandshake : (~SendReady(p) /\ ProcessMessage(p, msg))
    \/ \E msg \in GetAddrMessages : ProcessMessage(1, msg)
    \/ \E msg \in AddrRelayMessages : (RelayWanted /\ ProcessMessage(2, msg))
    \/ \E d \in AddrDues : ((d.local => QueueAtEdge) /\ SendMessagesDue(1, FALSE, d))

SpecAddrQueue == InitAddrQueue /\ [][NextAddrQueue]_vars

\* --- the announcements tracked for a peer
\* a peer announces transactions by txid, one or thousands in a message, on
\* an inbound connection or on an outbound one
TxLimitConns ==
    {Conn("inbound", FALSE, FALSE, "remote"),
     Conn("outbound_full_relay", FALSE, FALSE, "remote")}

TxLimitMessages ==
    {TxInvs("tx", 1, upto) :
        upto \in {NumTxs, MAX_PEER_TX_ANNOUNCEMENTS - 1, MAX_PEER_TX_ANNOUNCEMENTS + 1}}
    \cup {TxInv("tx", tx, FALSE) :
            tx \in {MAX_PEER_TX_ANNOUNCEMENTS, MAX_PEER_TX_ANNOUNCEMENTS + 1}}

\* requests are followed while few transactions are announced; the clock
\* stands still, so that only a preferred peer is asked
FewAnnounced == TxSize(m_txrequest) <= NumTxs

InitTxLimit == InitChainIndex({Current}, "tree")

NextTxLimit ==
    \/ \E c \in TxLimitConns : InitializeNode(1, c)
    \/ FinalizeNode(1)
    \/ \E msg \in HdrHandshake : (~SendReady(1) /\ ProcessMessage(1, msg))
    \/ \E msg \in TxLimitMessages : ProcessMessage(1, msg)
    \/ (FewAnnounced /\ SendMessages(1, FALSE))

SpecTxLimit == InitTxLimit /\ [][NextTxLimit]_vars

\* --- the punishment of invalid headers
\* a peer, inbound or outbound, sends a header that connects to the tip and
\* that ProcessNewBlockHeaders finds invalid, in a headers message or in a
\* compact block
PunishConns ==
    {Conn(t, FALSE, FALSE, "remote") : t \in {"inbound", "outbound_full_relay", "manual"}}

BlockResults ==
    {"BLOCK_CACHED_INVALID", "BLOCK_INVALID_HEADER", "BLOCK_MISSING_PREV", "BLOCK_TIME_FUTURE"}

PunishMessages ==
    {Connecting(1, TipWork, 1, FALSE, FALSE, result, <<>>) : result \in BlockResults \cup {"ok"}}
    \cup {CmpctBlockMsg("known", result) : result \in BlockResults}
    \cup {CmpctBlockMsg("low_work", "ok")}

InitPunish == InitChain({Current})

NextPunish ==
    \/ \E c \in PunishConns : InitializeNode(1, c)
    \/ FinalizeNode(1)
    \/ \E msg \in HdrHandshake : (~SendReady(1) /\ ProcessMessage(1, msg))
    \/ \E msg \in PunishMessages : ProcessMessage(1, msg)
    \/ SendMessages(1, FALSE)

SpecPunish == InitPunish /\ [][NextPunish]_vars

\* --- requests for blocks and headers
\* a peer asks for the blocks and the headers after a block of the active
\* chain, while the node imports, is in initial block download or is current
LocatorMessages ==
    {LocatorMsg(t, FALSE, fork, stop) :
        t \in {"getblocks", "getheaders"}, fork \in 0..NumBlocks,
        stop \in {NoBlock} \cup Hashes}
    \cup {LocatorMsg(t, TRUE, 0, NoBlock) : t \in {"getblocks", "getheaders"}}

\* the peer asks from a block the chain has, and asks for blocks again once
\* its inventory has gone out
LocatorWanted(msg) ==
    /\ msg.fork <= m_best_height
    /\ msg.type = "getblocks" => m_blocks_for_inv_relay[1] = <<>>

InitLocator == InitChainIndex({Importing, InIBD, Current}, "data")

NextLocator ==
    \/ \E c \in TxLimitConns : InitializeNode(1, c)
    \/ FinalizeNode(1)
    \/ \E msg \in HdrHandshake : (~SendReady(1) /\ ProcessMessage(1, msg))
    \/ \E msg \in LocatorMessages : (LocatorWanted(msg) /\ ProcessMessage(1, msg))
    \/ \E new \in Hashes : UpdatedBlockTip(new)
    \/ SendMessages(1, FALSE)

SpecLocator == InitLocator /\ [][NextLocator]_vars

\* --- the headers sync timeout
\* peers that are preferred for download with and without the NoBan
\* permission, and an inbound peer, which is not preferred
SyncTimeoutConns ==
    {Conn("outbound_full_relay", FALSE, FALSE, "remote"),
     Conn("manual", TRUE, FALSE, "remote"),
     Conn("inbound", FALSE, FALSE, "remote")}

\* the peers connect at the start; the clock stops at and just past the
\* headers download timeout of a sync started then
SyncTimeoutTimes ==
    {HdrStart + HEADERS_DOWNLOAD_TIMEOUT_BASE, HdrStart + HEADERS_DOWNLOAD_TIMEOUT_BASE + 1}

InitSyncTimeout == InitChain({InIBD, Current})

NextSyncTimeout ==
    \/ \E p \in SyncNodes, c \in SyncTimeoutConns : (now = HdrStart /\ InitializeNode(p, c))
    \/ \E p \in NodeIds : FinalizeNode(p)
    \/ \E p \in NodeIds, msg \in HdrHandshake : (~SendReady(p) /\ ProcessMessage(p, msg))
    \/ \E p \in NodeIds : SendMessages(p, FALSE)
    \/ \E t \in SyncTimeoutTimes : (t > now /\ AdvanceTime(t - now))

SpecSyncTimeout == InitSyncTimeout /\ [][NextSyncTimeout]_vars

\* --- the manual request of a block
\* the peer offers witness data or does not
FetchMessages ==
    {VersionMsg(70016, {"NETWORK", "WITNESS"}, TRUE), VersionMsg(70016, {"NETWORK"}, TRUE),
     [type |-> "verack"]}

\* the peers and the blocks of the calls
FetchNodes == {1, 2}
FetchHashes == {h \in Hashes : h = NumBlocks \/ h + 1 = NumBlocks}

InitFetch == InitChainIndex({Importing, Current}, "tree")

NextFetch ==
    \/ \E p \in FetchNodes, c \in HdrConns : InitializeNode(p, c)
    \/ \E p \in NodeIds : FinalizeNode(p)
    \/ \E p \in NodeIds, msg \in FetchMessages : (~SendReady(p) /\ ProcessMessage(p, msg))
    \/ \E p \in FetchNodes, h \in FetchHashes, connected \in BOOLEAN :
           FetchBlock(p, h, connected)

SpecFetch == InitFetch /\ [][NextFetch]_vars

\* --- the end of a connection
\* connections of every type
CloseConns == {Conn(t, FALSE, FALSE, "remote") : t \in ConnTypes}

CloseNodes == {1, 2}

InitClose == InitChain({Current})

\* the peers connect, shake hands or not, misbehave once or not, and go
NextClose ==
    \/ \E p \in CloseNodes, c \in CloseConns : InitializeNode(p, c)
    \/ \E p \in NodeIds : FinalizeNode(p)
    \/ \E p \in NodeIds, msg \in HdrHandshake : (~SendReady(p) /\ ProcessMessage(p, msg))
    \/ \E p \in NodeIds : (m_misbehavior_score[p] = 0 /\ Misbehaving(p, 20))

SpecClose == InitClose /\ [][NextClose]_vars

\* --- the block download timeout
\* the clock stops at the timeout of a download started at HdrStart and just
\* past it, and just past the timeout that holds while another peer downloads
BlockTimeoutTimes ==
    {HdrStart + nPowTargetSpacing, HdrStart + nPowTargetSpacing + 1,
     HdrStart + nPowTargetSpacing + nPowTargetSpacing \div 2 + 1}

InitBlockTimeout == InitChainIndex({Current}, "tree")

\* a block that is in flight from nobody is requested from a peer whose sync
\* has started, at the start or when the other peer has gone
FetchWanted(p, h) ==
    /\ SendReady(p) /\ ~fDisconnect[p] /\ fSyncStarted[p]
    /\ ~IsBlockRequested(h)
    /\ (now = HdrStart \/ nodes = {p})

\* the peers that are connected have shaken hands and had their first
\* SendMessages
Settled == \A p \in nodes : SendReady(p) /\ fSyncStarted[p]

\* the peers connect and shake hands at the start, one after the other;
\* blocks are requested from them; peer 1 delivers nothing, peer 2 delivers
\* or not, and a peer that is marked for disconnection goes
NextBlockTimeout ==
    \/ \E p \in StallNodes, c \in SyncConns :
           (now = HdrStart /\ (\A q \in StallNodes : q < p => SendReady(q))
                /\ InitializeNode(p, c))
    \/ \E p \in NodeIds : (fDisconnect[p] /\ FinalizeNode(p))
    \/ \E p \in NodeIds, msg \in HdrHandshake : (~SendReady(p) /\ ProcessMessage(p, msg))
    \/ \E h \in FetchHashes :
           (mapBlocksInFlight[h] = 2
                /\ ProcessMessage(2, [type |-> "block", hash |-> h, accepted |-> TRUE]))
    \/ \E p \in NodeIds, h \in FetchHashes : (FetchWanted(p, h) /\ FetchBlock(p, h, TRUE))
    \/ \E p \in NodeIds : SendMessages(p, FALSE)
    \/ \E t \in BlockTimeoutTimes : (t > now /\ Settled /\ AdvanceTime(t - now))

(* The message handler thread calls SendMessages for every peer in each of  *)
(* its rounds, and the connection manager calls FinalizeNode for a peer    *)
(* that is marked for disconnection.                                        *)
FairBlockTimeout ==
    \A p \in StallNodes :
        /\ WF_vars(SendMessages(p, FALSE))
        /\ WF_vars(fDisconnect[p] /\ FinalizeNode(p))

SpecBlockTimeout == InitBlockTimeout /\ [][NextBlockTimeout]_vars /\ FairBlockTimeout

\* --- the locks the threads hold
InitLocks == InitChain({Current})

NextLocks ==
    \/ \E t \in Threads : \E prog \in ProgramsOf(t) : BeginFunction(t, prog)
    \/ \E t \in Threads : AcquireLock(t)
    \/ \E t \in Threads : ReleaseLock(t)
    \/ \E t \in Threads : EnterCall(t)
    \/ \E t \in Threads : ReturnFromCall(t)

SpecLocks == InitLocks /\ [][NextLocks]_vars

\* --- one transaction announced by several peers that answer with notfound
ProgressNodes == {1, 2, 3}

\* peer 1 is an inbound peer, peer 2 a preferred (outbound) peer, peer 3 is
\* one or the other
ProgressConns(p) ==
    {Conn("inbound", FALSE, FALSE, "remote") : q \in {p} \ {2}}
    \cup {Conn("outbound_full_relay", FALSE, FALSE, "remote") : q \in {p} \ {1}}

\* the hash the peers announce, a txid: no peer negotiates wtxid relay
ProgressTx == GenTxid(1, FALSE)

ProgressTimes ==
    {HdrStart, HdrStart + 1, HdrStart + NONPREF_PEER_TX_DELAY,
     HdrStart + NONPREF_PEER_TX_DELAY + 1}

InitProgress == InitChain({Current})

Announced(p, gtxid) == \E a \in m_txrequest : a.peer = p /\ a.gtxid = gtxid

InFlightFrom(p, gtxid) ==
    \E a \in m_txrequest : a.peer = p /\ a.gtxid = gtxid /\ a.st = "requested"

WasAsked(p, gtxid) == [peer |-> p, gtxid |-> gtxid] \in asked

\* the peer has a candidate whose reqtime is reached
HasReady(p) == \E a \in m_txrequest : a.peer = p /\ a.st = "candidate" /\ a.reqtime <= now

\* the peers connect and shake hands at the start, one after the other, and
\* stay; each announces the transaction once, at any time, and a peer that
\* is asked for it answers with a notfound, possibly after one with too many
\* entries
NextProgress ==
    \/ \E p \in ProgressNodes : \E c \in ProgressConns(p) :
           /\ now = HdrStart
           /\ \A q \in ProgressNodes : q < p => SendReady(q)
           /\ InitializeNode(p, c)
    \/ \E p \in NodeIds, msg \in HdrHandshake : (now = HdrStart /\ ProcessMessage(p, msg))
    \/ \E p \in NodeIds :
           /\ SendReady(p) /\ ~Announced(p, ProgressTx) /\ ~WasAsked(p, ProgressTx)
           /\ ProcessMessage(p, TxInv("tx", ProgressTx.tx, FALSE))
    \/ \E p \in NodeIds, oversize \in BOOLEAN :
           /\ InFlightFrom(p, ProgressTx)
           /\ ProcessMessage(p, NotFound(ProgressTx, oversize))
    \/ \E p \in NodeIds : ((now = HdrStart \/ HasReady(p)) /\ SendMessages(p, FALSE))
    \/ \E t \in ProgressTimes :
           /\ t > now
           /\ nodes = ProgressNodes
           /\ \A p \in nodes : SendReady(p)
           /\ AdvanceTime(t - now)

SpecProgress == InitProgress /\ [][NextProgress]_vars

\* ---------------------------------------------------------------- GCSFilter
(* A Golomb-coded set, blockfilter.cpp.  The elements are 1..NumElements;  *)
(* CSipHasher with the keys of the parameters is a function from the       *)
(* elements to SipHashes, any function.  uint64_t holds the values below   *)
(* UINT64_SPAN, on the scale of the hashes.                                *)
Elements == 1..NumElements
SipHashes == 0..3
UINT64_SPAN == 4 * 4

\* Params: the Golomb-Rice parameter m_P and the inverse false positive rate m_M
GCSParams == {[m_P |-> P, m_M |-> M] : P \in {1, 2}, M \in {1, 3}}

\* FastRange64(x, n): the upper 64 bits of the 128-bit product x * n
FastRange64(x, n) == (x * n) \div Cardinality(SipHashes)

\* GCSFilter::HashToRange(element), for the filter f
HashToRange(f, element) == FastRange64(f.siphash[element], f.m_F)

\* std::sort of the hashes of the elements: the least of them first
RECURSIVE SortedHashes(_, _)
SortedHashes(f, E) ==
    IF E = {} THEN <<>>
    ELSE LET x == CHOOSE x \in E : \A y \in E : HashToRange(f, x) <= HashToRange(f, y)
         IN <<HashToRange(f, x)>> \o SortedHashes(f, E \ {x})

\* the hashes in the order in which the set gives its elements
RECURSIVE BuildHashedSet_Unsorted(_, _)
BuildHashedSet_Unsorted(f, E) ==
    IF E = {} THEN <<>>
    ELSE LET x == CHOOSE x \in E : \A y \in E : x >= y
         IN <<HashToRange(f, x)>> \o BuildHashedSet_Unsorted(f, E \ {x})

\* GCSFilter::BuildHashedSet(elements)
BuildHashedSet(f, E) == SortedHashes(f, E)

Pow2(n) == 2 ^ n

\* the lowest n bits of x, the highest of them first
RECURSIVE BitsOf(_, _)
BitsOf(n, x) == IF n = 0 THEN <<>> ELSE BitsOf(n - 1, x \div 2) \o <<x % 2>>

\* GolombRiceEncode(bitwriter, P, x): the quotient x >> P in unary, a zero,
\* and the remainder in P bits
GolombRiceEncode(P, x) ==
    [i \in 1..(x \div Pow2(P)) |-> 1] \o <<0>> \o BitsOf(P, x % Pow2(P))

\* BitStreamWriter::Flush: the last byte is filled with zeros
Flush(bits) == bits \o [i \in 1..((8 - (Len(bits) % 8)) % 8) |-> 0]

\* the loop of the constructor over the hashes from the i-th on
RECURSIVE EncodeDeltas(_, _, _, _)
EncodeDeltas(P, hashes, i, last_value) ==
    IF i > Len(hashes) THEN <<>>
    ELSE LET delta == (hashes[i] - last_value) % UINT64_SPAN
         IN GolombRiceEncode(P, delta) \o EncodeDeltas(P, hashes, i + 1, hashes[i])

\* GCSFilter::GCSFilter(params, elements): m_encoded is the compact size of
\* N and the bits that follow it
GCSFilter(params, siphash, E) ==
    LET f == [m_params |-> params, siphash |-> siphash, m_N |-> Cardinality(E),
              m_F |-> Cardinality(E) * params.m_M]
    IN f @@
       [m_encoded |->
            [N |-> f.m_N,
             bits |-> IF E = {} THEN <<>>
                      ELSE Flush(EncodeDeltas(params.m_P, BuildHashedSet(f, E), 1, 0))]]

\* the ones that start at bit i
RECURSIVE Quotient(_, _)
Quotient(bits, i) == IF bits[i] = 1 THEN 1 + Quotient(bits, i + 1) ELSE 0

\* the number that the n bits from bit i on spell
RECURSIVE ReadBits(_, _, _)
ReadBits(bits, i, n) ==
    IF n = 0 THEN 0 ELSE 2 * ReadBits(bits, i, n - 1) + bits[i + n - 1]

\* GolombRiceDecode(bitreader, P) with the reader at bit i: the number and
\* the place of the reader after it
GolombRiceDecode(bits, i, P) ==
    LET q == Quotient(bits, i)
    IN [value |-> q * Pow2(P) + ReadBits(bits, i + q + 1, P), next |-> i + q + 1 + P]

\* the inner loop of MatchInternal: what it returns ("true", "false") or that
\* it breaks ("break"), and hashes_index after it
RECURSIVE Scan(_, _, _)
Scan(element_hashes, hashes_index, value) ==
    IF hashes_index > Len(element_hashes) THEN [ret |-> "false", index |-> hashes_index]
    ELSE IF element_hashes[hashes_index] = value THEN [ret |-> "true", index |-> hashes_index]
    ELSE IF element_hashes[hashes_index] > value THEN [ret |-> "break", index |-> hashes_index]
    ELSE Scan(element_hashes, hashes_index + 1, value)

\* a loop that compares the deltas themselves with the hashes
RECURSIVE MatchLoop_Deltas(_, _, _, _, _, _)
MatchLoop_Deltas(f, element_hashes, i, pos, value, hashes_index) ==
    IF i > f.m_N THEN FALSE
    ELSE LET d == GolombRiceDecode(f.m_encoded.bits, pos, f.m_params.m_P)
             s == Scan(element_hashes, hashes_index, d.value)
         IN IF s.ret = "break"
            THEN MatchLoop_Deltas(f, element_hashes, i + 1, d.next, d.value, s.index)
            ELSE s.ret = "true"

\* the outer loop of MatchInternal from the i-th element of the filter on,
\* with the reader at bit pos
RECURSIVE MatchLoop(_, _, _, _, _, _)
MatchLoop(f, element_hashes, i, pos, value, hashes_index) ==
    IF i > f.m_N THEN FALSE
    ELSE LET d == GolombRiceDecode(f.m_encoded.bits, pos, f.m_params.m_P)
             v == (value + d.value) % UINT64_SPAN
             s == Scan(element_hashes, hashes_index, v)
         IN IF s.ret = "break"
            THEN MatchLoop(f, element_hashes, i + 1, d.next, v, s.index)
            ELSE s.ret = "true"

\* GCSFilter::MatchInternal(element_hashes, size)
MatchInternal(f, element_hashes) == MatchLoop(f, element_hashes, 1, 1, 0, 1)

\* GCSFilter::Match(element)
Match(f, element) == MatchInternal(f, <<HashToRange(f, element)>>)

NoQuery == [kind |-> "none", of |-> {}, result |-> FALSE]

\* a filter built from any set of elements with any parameters and keys
InitFilters ==
    {GCSFilter(params, siphash, E) @@ [elements |-> E, query |-> NoQuery] :
        params \in GCSParams, siphash \in [Elements -> SipHashes], E \in SUBSET Elements}

\* the state of the engine before any peer has connected
NoPeers ==
    /\ InitPeers
    /\ now = HdrStart
    /\ m_banman = TRUE
    /\ nStatus = [h \in Hashes |-> "none"]
    /\ fImporting = FALSE /\ ibd = FALSE /\ best_header_recent = TRUE

peerVars == <<engineVars, threads>>

InitGCS ==
    /\ NoPeers
    /\ filter \in InitFilters
    /\ cipher = Unused /\ addrman = Unused

\* a call of Match for the element
MatchElement(element) ==
    /\ filter' = [filter EXCEPT !.query = [kind |-> "Match", of |-> {element},
                                           result |-> Match(filter, element)]]
    /\ UNCHANGED <<peerVars, cipher, addrman>>

NextGCS == \E element \in Elements : MatchElement(element)

SpecGCS == InitGCS /\ [][NextGCS]_vars

\* ----------------------------------------------------------------- ChaCha20
(* crypto/chacha20.cpp.  A uint32_t is a record of its two 16-bit halves,  *)
(* hi and lo; a byte is a number below 256.                                *)
Half == 2 ^ 16

Word(hi, lo) == [hi |-> hi, lo |-> lo]

\* uint32_t addition
Add32(a, b) ==
    LET lo == a.lo + b.lo
    IN Word((a.hi + b.hi + (lo \div Half)) % Half, lo % Half)

\* the exclusive or of the lowest n bits of x and y
RECURSIVE XorBits(_, _, _)
XorBits(x, y, n) ==
    IF n = 0 THEN 0 ELSE ((x + y) % 2) + 2 * XorBits(x \div 2, y \div 2, n - 1)

Xor32(a, b) == Word(XorBits(a.hi, b.hi, 16), XorBits(a.lo, b.lo, 16))

\* rotl32(v, c) == (v << c) | (v >> (32 - c)), for c = 16 and for c < 16
rotl32(v, c) ==
    IF c = 16 THEN Word(v.lo, v.hi)
    ELSE Word(((v.hi * Pow2(c)) % Half) + (v.lo \div Pow2(16 - c)),
              ((v.lo * Pow2(c)) % Half) + (v.hi \div Pow2(16 - c)))

\* QUARTERROUND(a, b, c, d): the four words after it
QUARTERROUND(a, b, c, d) ==
    LET a1 == Add32(a, b)
        d1 == rotl32(Xor32(d, a1), 16)
        c1 == Add32(c, d1)
        b1 == rotl32(Xor32(b, c1), 12)
        a2 == Add32(a1, b1)
        d2 == rotl32(Xor32(d1, a2), 8)
        c2 == Add32(c1, d2)
        b2 == rotl32(Xor32(b1, c2), 7)
    IN <<a2, b2, c2, d2>>

\* F of the value v, which is worked out once
With(v, F(_)) == CHOOSE r \in {F(w) : w \in {v}} : TRUE

\* the words x0 .. x15 after the quarter round on the words a, b, c, d
RoundOn(x, a, b, c, d) ==
    With(x, LAMBDA y :
        With(QUARTERROUND(y[a], y[b], y[c], y[d]), LAMBDA q :
            [y EXCEPT ![a] = q[1], ![b] = q[2], ![c] = q[3], ![d] = q[4]]))

\* the body of REPEAT10: four column rounds and four diagonal rounds
DoubleRound(x) ==
    RoundOn(RoundOn(RoundOn(RoundOn(
    RoundOn(RoundOn(RoundOn(RoundOn(x, 0, 4, 8, 12), 1, 5, 9, 13), 2, 6, 10, 14), 3, 7, 11, 15),
            0, 5, 10, 15), 1, 6, 11, 12), 2, 7, 8, 13), 3, 4, 9, 14)

\* sixteen words of 32 bits
IsWords(x) ==
    /\ DOMAIN x = 0..15
    /\ \A i \in 0..15 : x[i].hi \in 0..(Half - 1) /\ x[i].lo \in 0..(Half - 1)

\* REPEAT10 and its shorter forms: n times the double round
RECURSIVE Repeat(_, _)
Repeat(x, n) ==
    IF n = 0 THEN x
    ELSE With(DoubleRound(x), LAMBDA y : IF IsWords(y) THEN Repeat(y, n - 1) ELSE y)

\* WriteLE32(c, x): the four bytes of the word
WriteLE32(x) == <<x.lo % 256, x.lo \div 256, x.hi % 256, x.hi \div 256>>

\* ReadLE32(k + at): the word of the four bytes at offset at of k
ReadLE32(k, at) == Word(k[at + 3] + 256 * k[at + 4], k[at + 1] + 256 * k[at + 2])

\* the bytes of the words x0 .. x15, in turn
RECURSIVE WriteWords(_, _)
WriteWords(x, i) == IF i > 15 THEN <<>> ELSE WriteLE32(x[i]) \o WriteWords(x, i + 1)

\* one round of the loop of Keystream64: the 64 bytes of the block of input
KeystreamBlock(input) ==
    With(Repeat(input, 10), LAMBDA x :
        With([i \in 0..15 |-> Add32(x[i], input[i])], LAMBDA sum : WriteWords(sum, 0)))

\* ++j12; if (!j12) ++j13
NextBlock(input) ==
    LET j12 == Add32(input[12], Word(0, 1))
    IN [input EXCEPT ![12] = j12,
                     ![13] = IF j12 = Word(0, 0) THEN Add32(@, Word(0, 1)) ELSE @]

\* the words after the rounds, with the input added
BlockWords(input) ==
    With(Repeat(input, 10), LAMBDA x : [i \in 0..15 |-> Add32(x[i], input[i])])

\* one round of the loop of Crypt64: the 64 bytes at m, each word of them
\* combined with the word of the block
CryptBlock(input, m) ==
    With(BlockWords(input), LAMBDA block :
        With([i \in 0..15 |-> Xor32(block[i], ReadLE32(m, 4 * i))],
             LAMBDA mixed : WriteWords(mixed, 0)))

\* what a call leaves: the bytes it has written and the words of input
Written(bytes, input) == [out |-> bytes, input |-> input]

\* ChaCha20Aligned::Keystream64(c, blocks)
RECURSIVE Keystream64(_, _)
Keystream64(input, blocks) ==
    IF blocks = 0 THEN Written(<<>>, input)
    ELSE With(Keystream64(NextBlock(input), blocks - 1), LAMBDA rest :
             Written(KeystreamBlock(input) \o rest.out, rest.input))

\* ChaCha20Aligned::Crypt64(m, c, blocks)
RECURSIVE Crypt64(_, _, _)
Crypt64(input, m, blocks) ==
    IF blocks = 0 THEN Written(<<>>, input)
    ELSE With(Crypt64(NextBlock(input), SubSeq(m, 65, Len(m)), blocks - 1), LAMBDA rest :
             Written(CryptBlock(input, SubSeq(m, 1, 64)) \o rest.out, rest.input))

\* a cipher that keeps the rest of the last block for the next call: the
\* block counter stays where the call began when bytes are left over
Keystream_Buffered(input, bytes) ==
    With(Keystream64(input, bytes \div 64), LAMBDA whole :
        IF bytes % 64 = 0 THEN whole
        ELSE With(Keystream64(whole.input, 1), LAMBDA buffer :
                 Written(whole.out \o SubSeq(buffer.out, 1, bytes % 64), whole.input)))

\* ChaCha20::Keystream(c, bytes)
Keystream(input, bytes) ==
    With(Keystream64(input, bytes \div 64), LAMBDA whole :
        IF bytes % 64 = 0 THEN whole
        ELSE With(Keystream64(whole.input, 1), LAMBDA buffer :
                 Written(whole.out \o SubSeq(buffer.out, 1, bytes % 64), buffer.input)))

\* a cipher that adds the byte of the key stream to the byte of the message
Crypt_Added(input, m) ==
    LET left == Len(m) % 64
    IN With(Crypt64(input, m, Len(m) \div 64), LAMBDA whole :
           IF left = 0 THEN whole
           ELSE With(Keystream64(whole.input, 1), LAMBDA buffer :
                    Written(whole.out \o [i \in 1..left |->
                                (m[Len(m) - left + i] + buffer.out[i]) % 256],
                            buffer.input)))

\* ChaCha20::Crypt(m, c, bytes)
Crypt(input, m) ==
    LET left == Len(m) % 64
    IN With(Crypt64(input, m, Len(m) \div 64), LAMBDA whole :
           IF left = 0 THEN whole
           ELSE With(Keystream64(whole.input, 1), LAMBDA buffer :
                    Written(whole.out \o [i \in 1..left |->
                                XorBits(m[Len(m) - left + i], buffer.out[i], 8)],
                            buffer.input)))

\* "expand 32-byte k" and "expand 16-byte k"
sigma == <<101, 120, 112, 97, 110, 100, 32, 51, 50, 45, 98, 121, 116, 101, 32, 107>>
tau == <<101, 120, 112, 97, 110, 100, 32, 49, 54, 45, 98, 121, 116, 101, 32, 107>>

\* ChaCha20Aligned::SetKey(k, keylen)
SetKey(k) ==
    LET constants == IF Len(k) = 32 THEN sigma ELSE tau
        more == IF Len(k) = 32 THEN 16 ELSE 0
    IN [i \in 0..15 |->
           IF i < 4 THEN ReadLE32(constants, 4 * i)
           ELSE IF i < 8 THEN ReadLE32(k, 4 * (i - 4))
           ELSE IF i < 12 THEN ReadLE32(k, more + 4 * (i - 8))
           ELSE Word(0, 0)]

\* a uint64_t: its lower and its upper word
UInt64(upper, lower) == [upper |-> upper, lower |-> lower]

\* ChaCha20Aligned::SetIV(iv)
SetIV(input, iv) == [input EXCEPT ![14] = iv.lower, ![15] = iv.upper]

\* ChaCha20Aligned::Seek(pos)
Seek(input, pos) == [input EXCEPT ![12] = pos.lower, ![13] = pos.upper]

\* the block counter
Counter(input) == UInt64(input[13], input[12])

\* the keys: 32 zero bytes, and the 16 bytes 1 .. 16
ChaChaKeys == {[i \in 1..32 |-> 0], [i \in 1..16 |-> i]}

\* the nonces and the block counters to start from: 0, and the last one
\* before the lower word wraps around
ChaChaIVs == {UInt64(Word(0, 0), Word(0, 0)), UInt64(Word(1, 2), Word(3, 4))}
ChaChaSeeks == {UInt64(Word(0, 0), Word(0, 0)), UInt64(Word(0, 0), Word(Half - 1, Half - 1))}

\* byte lengths around the block size
ChaChaLens == {0, 1, 63, 64, 65, 130}

\* the message of a length: its i-th byte is 7 * i modulo 256
MessageOf(len) == [i \in 1..len |-> (7 * i) % 256]

\* a cipher with a key, a nonce and a block counter, a message x of one of
\* the lengths to work on (data), nothing encrypted and no key stream taken
\* yet
InitCiphers(lens) ==
    {[input |-> Seek(SetIV(SetKey(k), iv), pos), pos |-> pos,
      x |-> MessageOf(len), data |-> MessageOf(len), starts |-> <<>>,
      out |-> <<>>, lens |-> <<>>] :
        k \in ChaChaKeys, iv \in ChaChaIVs, pos \in ChaChaSeeks, len \in lens}

InitCrypt ==
    /\ NoPeers
    /\ cipher \in InitCiphers(ChaChaLens)
    /\ filter = Unused /\ addrman = Unused

InitKeystream ==
    /\ NoPeers
    /\ cipher \in InitCiphers({0})
    /\ filter = Unused /\ addrman = Unused

\* Crypt on the data, in place; starts tells at which block counters the
\* calls began
CryptData ==
    /\ Len(cipher.starts) < 2
    /\ \E w \in {Crypt(cipher.input, cipher.data)} :
           cipher' = [cipher EXCEPT !.input = w.input, !.data = w.out,
                                    !.starts = Append(@, Counter(cipher.input))]
    /\ UNCHANGED <<peerVars, filter, addrman>>

\* Keystream for a number of bytes; out is what the calls since the last
\* Seek have written, lens their lengths
TakeKeystream(bytes) ==
    /\ Len(cipher.lens) < 2
    /\ \E w \in {Keystream(cipher.input, bytes)} :
           cipher' = [cipher EXCEPT !.input = w.input, !.out = @ \o w.out,
                                    !.lens = Append(@, bytes)]
    /\ UNCHANGED <<peerVars, filter, addrman>>

\* Seek back to the block counter the cipher started from
SeekBack ==
    /\ Counter(cipher.input) # cipher.pos
    /\ cipher' = [cipher EXCEPT !.input = Seek(@, cipher.pos), !.out = <<>>, !.lens = <<>>]
    /\ UNCHANGED <<peerVars, filter, addrman>>

NextCrypt == CryptData \/ SeekBack

SpecCrypt == InitCrypt /\ [][NextCrypt]_vars

NextKeystream ==
    \/ \E bytes \in ChaChaLens : TakeKeystream(bytes)
    \/ SeekBack

SpecKeystream == InitKeystream /\ [][NextKeystream]_vars

\* ------------------------------------------------------------------ AddrMan
(* The address manager behind addrman.h, as its operations are described.  *)
(* The new table has NewBucketCount buckets and the tried table            *)
(* TriedBucketCount, each bucket of one position on the scale of the       *)
(* model.  The bucket of an address in the new table is picked by its      *)
(* source, its tried bucket by the address alone.  The clock stands still: *)
(* a time is "never" or "recent".                                          *)
ManAddrs == {1, 2, 3}
TriedBuckets == {0, 1}
TriedBucketCount == Cardinality(TriedBuckets)
NewBucketCount == ADDRMAN_NEW_BUCKETS_PER_ADDRESS + 1
NewBuckets == 0..(NewBucketCount - 1)
ManSources == NewBuckets
Empty == 0          \* -1 in vvNew and vvTried: no address in the position

GetNewBucket(a, source) == (a + source) % NewBucketCount
GetTriedBucket(a) == a % TriedBucketCount

NoInfo == [known |-> FALSE, source |-> 0, fInTried |-> FALSE, nRefCount |-> 0,
           nAttempts |-> 0, m_last_try |-> "never", m_last_success |-> "never"]

\* AddrInfo::IsTerrible with the clock standing still: no success in the last
\* thirty days and as many failed attempts as the model counts
IsTerrible(info) == info.m_last_success = "never" /\ info.nAttempts >= MaxAttempts

\* the new buckets that hold the address
NewBucketsOf(am, a) == {b \in NewBuckets : am.vvNew[b] = a}

\* AddrManImpl::Delete(nId)
Delete(am, a) == [am EXCEPT !.mapInfo[a] = NoInfo]

\* AddrManImpl::ClearNew(bucket, pos)
ClearNew(am, b) ==
    LET a == am.vvNew[b]
        c == [am EXCEPT !.vvNew[b] = Empty, !.mapInfo[a].nRefCount = @ - 1]
    IN IF a = Empty THEN am
       ELSE IF c.mapInfo[a].nRefCount = 0 THEN Delete(c, a) ELSE c

\* Add_: an address that is there gets one more bucket only if it is not in
\* the tried table and in fewer than ADDRMAN_NEW_BUCKETS_PER_ADDRESS buckets
MayAddRef(info) ==
    ~info.fInTried /\ info.nRefCount < ADDRMAN_NEW_BUCKETS_PER_ADDRESS

\* AddrManImpl::AddSingle(addr, source, time_penalty); lucky is the outcome
\* of the draw, which an address that is not there does not need
AddSingle(am, a, source, lucky) ==
    LET known == am.mapInfo[a].known
        b == GetNewBucket(a, source)
        was == am.vvNew[b]
        created == IF known THEN am
                   ELSE [am EXCEPT !.mapInfo[a] = [NoInfo EXCEPT !.known = TRUE,
                                                                !.source = source]]
        replace == was # Empty /\ (IsTerrible(am.mapInfo[was])
                                   \/ (am.mapInfo[was].nRefCount > 1
                                       /\ created.mapInfo[a].nRefCount = 0))
        cleared == ClearNew(created, b)
    IN IF known /\ (~MayAddRef(am.mapInfo[a]) \/ ~lucky) THEN am
       ELSE IF was = a THEN created
       ELSE IF was = Empty \/ replace
       THEN [cleared EXCEPT !.vvNew[b] = a, !.mapInfo[a].nRefCount = @ + 1]
       ELSE IF created.mapInfo[a].nRefCount = 0 THEN Delete(created, a)
       ELSE created

\* the tables after the address left every new bucket
RECURSIVE ClearAll(_, _, _)
ClearAll(am, a, buckets) ==
    IF buckets = {} THEN am
    ELSE LET b == CHOOSE b \in buckets : TRUE
         IN ClearAll([am EXCEPT !.vvNew[b] = Empty, !.mapInfo[a].nRefCount = @ - 1],
                     a, buckets \ {b})

\* an address manager that leaves the address in its new buckets
MakeTried_KeepNew(am, a) ==
    [am EXCEPT !.vvTried[GetTriedBucket(a)] = a, !.mapInfo[a].fInTried = TRUE]

\* AddrManImpl::MakeTried(info, nId): the address leaves the new table; an
\* address that has its tried position goes back to the new bucket of its
\* source, from which it drives out what is there
MakeTried(am, a) ==
    LET out == ClearAll(am, a, NewBucketsOf(am, a))
        t == GetTriedBucket(a)
        old == out.vvTried[t]
        b == GetNewBucket(old, out.mapInfo[old].source)
        moved == IF old = Empty THEN out
                 ELSE [ClearNew([out EXCEPT !.mapInfo[old].fInTried = FALSE,
                                            !.vvTried[t] = Empty], b)
                          EXCEPT !.mapInfo[old].nRefCount = 1, !.vvNew[b] = old]
    IN [moved EXCEPT !.vvTried[t] = a, !.mapInfo[a].fInTried = TRUE]

\* AddrManImpl::Good_(addr, test_before_evict, time)
Good_(am, a, test_before_evict) ==
    LET marked == [am EXCEPT !.mapInfo[a].m_last_success = "recent",
                             !.mapInfo[a].m_last_try = "recent",
                             !.mapInfo[a].nAttempts = 0]
    IN IF ~am.mapInfo[a].known THEN am
       ELSE IF am.mapInfo[a].fInTried THEN marked
       ELSE IF marked.mapInfo[a].nRefCount = 0 THEN marked
       ELSE IF test_before_evict /\ marked.vvTried[GetTriedBucket(a)] # Empty
       THEN [marked EXCEPT !.m_tried_collisions = @ \cup {a}]
       ELSE MakeTried(marked, a)

\* AddrManImpl::Attempt_(addr, fCountFailure, time)
Attempt_(am, a, fCountFailure) ==
    IF ~am.mapInfo[a].known THEN am
    ELSE [am EXCEPT !.mapInfo[a].m_last_try = "recent",
                    !.mapInfo[a].nAttempts = IF fCountFailure THEN @ + 1 ELSE @]

\* AddrManImpl::ResolveCollisions_ for the collisions that are left; waited
\* tells that the last try of the address in the way is over a minute ago
RECURSIVE ResolveCollisions_(_, _, _)
ResolveCollisions_(am, left, waited) ==
    IF left = {} THEN am
    ELSE LET a == CHOOSE a \in left : TRUE
             old == am.vvTried[GetTriedBucket(a)]
             erased == [am EXCEPT !.m_tried_collisions = @ \ {a}]
             next ==
                 IF ~am.mapInfo[a].known THEN erased
                 ELSE IF old = Empty THEN Good_(erased, a, FALSE)
                 ELSE IF am.mapInfo[old].m_last_success = "recent" THEN erased
                 ELSE IF am.mapInfo[old].m_last_try = "recent"
                 THEN (IF waited THEN Good_(erased, a, FALSE) ELSE am)
                 ELSE am
         IN ResolveCollisions_(next, left \ {a}, waited)

\* AddrMan::AddrMan: empty tables
NewAddrMan ==
    [mapInfo |-> [a \in ManAddrs |-> NoInfo], vvNew |-> [b \in NewBuckets |-> Empty],
     vvTried |-> [t \in TriedBuckets |-> Empty], m_tried_collisions |-> {}]

InitAddrMan ==
    /\ NoPeers
    /\ addrman = NewAddrMan
    /\ filter = Unused /\ cipher = Unused

\* AddrMan::Add for one address
Add(a, source, lucky) ==
    /\ addrman' = AddSingle(addrman, a, source, lucky)
    /\ UNCHANGED <<peerVars, filter, cipher>>

\* an address manager that marks the address as tried where it is
Good_KeepNew(a) ==
    /\ addrman' = MakeTried_KeepNew(addrman, a)
    /\ UNCHANGED <<peerVars, filter, cipher>>

\* AddrMan::Good
Good(a) ==
    /\ addrman' = Good_(addrman, a, TRUE)
    /\ UNCHANGED <<peerVars, filter, cipher>>

\* AddrMan::Attempt
Attempt(a, fCountFailure) ==
    /\ addrman.mapInfo[a].nAttempts < MaxAttempts
    /\ addrman' = Attempt_(addrman, a, fCountFailure)
    /\ UNCHANGED <<peerVars, filter, cipher>>

\* AddrMan::ResolveCollisions
ResolveCollisions(waited) ==
    /\ addrman' = ResolveCollisions_(addrman, addrman.m_tried_collisions, waited)
    /\ UNCHANGED <<peerVars, filter, cipher>>

\* the sources send an address one after the other
InTurn(a, source) ==
    \/ source = 0
    \/ a = 1 /\ addrman.vvNew[GetNewBucket(a, source - 1)] = a
    \/ a = 2 /\ source = 1

NextAddrMan ==
    \/ \E a \in ManAddrs, source \in ManSources, lucky \in BOOLEAN :
           (InTurn(a, source) /\ Add(a, source, lucky))
    \/ \E a \in ManAddrs : Good(a)
    \/ \E a \in ManAddrs, fCountFailure \in BOOLEAN : Attempt(a, fCountFailure)
    \/ \E waited \in BOOLEAN : ResolveCollisions(waited)

SpecAddrMan == InitAddrMan /\ [][NextAddrMan]_vars

\* --- manual requests on a long chain
\* a block index of one block more than a peer may have in flight
ManyHashes == 1..(MAX_BLOCKS_IN_TRANSIT_PER_PEER + 1)

InitManyFetch ==
    /\ InitPeersOn(ManyHashes)
    /\ LibUnused
    /\ now = HdrStart
    /\ m_banman = TRUE
    /\ nStatus = [h \in ManyHashes |-> "tree"]
    /\ fImporting = FALSE /\ ibd = FALSE /\ best_header_recent = TRUE

\* the blocks are asked for in the order of the chain, and the last of them
\* once more; all but the first are asked for from peer 1
NextToFetch(p, h) ==
    /\ p = 1 \/ h = 1
    /\ \A k \in ManyHashes : k < h => mapBlocksInFlight[k] # NoNode
    /\ \A k \in ManyHashes : k > h => mapBlocksInFlight[k] = NoNode

NextManyFetch ==
    \/ \E p \in FetchNodes, c \in HdrConns : InitializeNode(p, c)
    \/ \E p \in NodeIds : FinalizeNode(p)
    \/ \E p \in NodeIds, msg \in FetchMessages : (~SendReady(p) /\ ProcessMessage(p, msg))
    \/ \E p \in FetchNodes, h \in ManyHashes, connected \in BOOLEAN :
           (NextToFetch(p, h) /\ FetchBlock(p, h, connected))

SpecManyFetch == InitManyFetch /\ [][NextManyFetch]_vars

\* --- peers marked for disconnection by SendMessages
\* the times of the block download timeout, the headers sync timeout and the
\* chain sync timeout
MarkedTimes ==
    {HdrStart + nPowTargetSpacing + 1, HdrStart + HEADERS_DOWNLOAD_TIMEOUT_BASE + 1,
     HdrStart + CHAIN_SYNC_TIMEOUT + 1,
     HdrStart + CHAIN_SYNC_TIMEOUT + HEADERS_RESPONSE_TIME + 2}

InitMarked == InitChainIndex({InIBD, Current}, "tree")

\* a peer announces the blocks above the tip
MarkedInvs ==
    {[type |-> "inv", oversize |-> FALSE, hash |-> h, have |-> FALSE, work |-> TipWork + h] :
         h \in Hashes}

\* peer 1 connects and then peer 2; they announce blocks, and then the clock
\* moves on past the timeouts, the ping timeout among them
NextMarked ==
    \/ \E c \in SyncConns : (nodes = {} /\ InitializeNode(1, c))
    \/ \E c \in SyncConns :
           (now = HdrStart /\ nodes = {1} /\ SendReady(1) /\ InitializeNode(2, c))
    \/ \E p \in SendNodes, msg \in HdrHandshake : (~SendReady(p) /\ ProcessMessage(p, msg))
    \/ \E p \in SendNodes, msg \in MarkedInvs :
           (now = HdrStart /\ SendReady(p) /\ ProcessMessage(p, msg))
    \/ \E p \in SendNodes, inactive \in BOOLEAN :
           (SendReady(p) /\ (inactive => (p = 1 /\ now > HdrStart)) /\ SendMessages(p, inactive))
    \/ \E t \in MarkedTimes : (t > now /\ AdvanceTime(t - now))

SpecMarked == InitMarked /\ [][NextMarked]_vars

\* the messages of the decoding model: the handshake and a block
\* announcement that makes the node ask for headers
DecodeMessages ==
    HdrHandshake
    \cup {[type |-> "inv", oversize |-> FALSE, hash |-> 1, have |-> FALSE, work |-> 0]}

\* the types of its messages whose payload is too short: one that is read
\* before the handshake is complete, one with nothing before its read, one
\* with a check before it, and headers
ThrowTypes == {"sendcmpct", "inv", "block", "headers"}

\* the headers model with messages whose payload is too short
NextDecode ==
    \/ \E p \in HdrNodes, c \in HdrConns : (now = HdrStart /\ InitializeNode(p, c))
    \/ \E p \in NodeIds, msg \in DecodeMessages : ProcessMessage(p, msg)
    \/ \E p \in NodeIds, t \in ThrowTypes : ProcessMessageThrows(p, t)
    \/ \E p \in NodeIds : SendMessages(p, FALSE)
    \/ \E t \in HdrTimes : (t > now /\ AdvanceTime(t - now))

SpecDecode == InitHeaders /\ [][NextDecode]_vars

\* --- the peers asked for compact blocks in high-bandwidth mode
HBConns ==
    {Conn("inbound", FALSE, FALSE, "remote"),
     Conn("outbound_full_relay", FALSE, FALSE, "remote")}

\* a peer sends its version and announces compact blocks
HBMessages ==
    {VersionMsg(70016, {"NETWORK", "WITNESS"}, TRUE),
     [type |-> "sendcmpct", hb |-> FALSE, version |-> CMPCTBLOCKS_VERSION]}

InitHB == InitChainIndex({Current}, "tree")

\* the peers of the model: one more than the list takes
HBNodes == {1, 2, 3, 4}

\* node ids are given out in order and not given twice while the list
\* holds them; a peer announces compact blocks before the next one
\* connects; the peers that go are peers of the list; ForNode finds the
\* front of the list when it finds the peer
NextHB ==
    \/ \E p \in HBNodes, c \in HBConns :
           /\ p \notin Range(lNodesAnnouncingHeaderAndIDs)
           /\ \A q \in HBNodes :
                  q < p => (q \in nodes \/ q \in Range(lNodesAnnouncingHeaderAndIDs))
           /\ InitializeNode(p, c)
    \/ \E p \in HBNodes :
           (p \in Range(lNodesAnnouncingHeaderAndIDs) /\ FinalizeNode(p))
    \/ \E p \in HBNodes, msg \in HBMessages :
           /\ ~m_provides_cmpctblocks[p]
           /\ \A q \in nodes : q <= p
           /\ ProcessMessage(p, msg)
    \/ \E p \in HBNodes, connected \in BOOLEAN :
           MaybeSetPeerAsAnnouncingHeaderAndIDs(p, connected, connected)

SpecHB == InitHB /\ [][NextHB]_vars

\* --- C14: the order of the steps of SendMessages
\* the place of a message in the order of the steps that send it; getheaders
\* is sent by two steps and has none
SendRank(t) ==
    CASE t = "ping" -> 1
      [] t \in {"addr", "addrv2"} -> 2
      [] t = "sendheaders" -> 3
      [] t \in {"cmpctblock", "headers"} -> 4
      [] t = "inv" -> 5
      [] t = "getdata" -> 6
      [] t = "feefilter" -> 7
      [] OTHER -> 0

IsRanked(m) == SendRank(m.type) > 0

\* the step is a call of SendMessages for p that went past MaybeSendPing
SendsPastPing(p) ==
    /\ last'.op = "SendMessages" /\ last'.peer = p
    /\ Len(ran') > Len(StepsUpTo("ping"))

(* C14: "within one tick_send for a peer the steps run in this order: ...   *)
(* tx inventory announcement, inflight-block timeout check, headers-sync    *)
(* timeout check, stalling detection, getdata ...": the block download      *)
(* timeout is looked at before the stalling, so a call that reaches the     *)
(* checks for a peer whose block download has timed out returns for the     *)
(* timeout.                                                                  *)
C14_TimeoutBeforeStalling ==
    [][\A p \in NodeIds :
          SendsPastPing(p) /\ DownloadTimedOut(p) => last'.arg = "block_timeout"]_vars

(* C14, as the code has it: the steps run in the order discourage, ping,    *)
(* addr, sendheaders, start of the headers sync, block announcement, tx     *)
(* inventory, stalling, block download timeout, headers sync timeout,       *)
(* eviction, getdata for blocks and transactions, feefilter.  The steps a   *)
(* call went through are a prefix of that order, the messages it sent are   *)
(* in that order with at most one of a kind, a stalling peer is             *)
(* disconnected for stalling whether or not its download timed out, and a   *)
(* peer that is not stalling and whose download timed out for the timeout.  *)
C14_StepOrder ==
    [][\A p \in NodeIds :
          last'.op = "SendMessages" /\ last'.peer = p =>
              LET out == SelectSeq(pushed', IsRanked) IN
              /\ ran' = SubSeq(SendSteps, 1, Len(ran'))
              /\ \A i, j \in 1..Len(out) :
                     i < j => SendRank(out[i].type) < SendRank(out[j].type)
              /\ SendsPastPing(p) /\ IsStalling(p) =>
                     last'.arg = "stalling" /\ ran' = StepsUpTo("stalling")
              /\ SendsPastPing(p) /\ ~IsStalling(p) /\ DownloadTimedOut(p) =>
                     last'.arg = "block_timeout" /\ ran' = StepsUpTo("block_timeout")
              /\ last'.arg = "headers_timeout" =>
                     ~IsStalling(p) /\ ~DownloadTimedOut(p)]_vars

\* a call of SendMessages went through every step and sent a message at
\* each step that sends one
C14_Witness ==
    /\ last.op = "SendMessages" /\ last.arg = ""
    /\ ran = SendSteps
    /\ {SendRank(pushed[i].type) : i \in 1..Len(pushed)} = 0..7

\* --- C15: the order of the responses to getdata
\* s is c with some of its elements left out
RECURSIVE IsSubSeq(_, _)
IsSubSeq(s, c) ==
    IF s = <<>> THEN TRUE
    ELSE IF c = <<>> THEN FALSE
    ELSE IF Head(s) = Head(c) THEN IsSubSeq(Tail(s), Tail(c))
    ELSE IsSubSeq(s, Tail(c))

\* the items of a sequence of responses, in the order they are sent
RECURSIVE ItemsOf(_)
ItemsOf(responses) ==
    IF responses = <<>> THEN <<>> ELSE Head(responses).items \o ItemsOf(Tail(responses))

IsNotFound(r) == r.type = "notfound"
IsData(r) == r.type # "notfound"

\* the step is a call of ProcessGetData for p, from ProcessMessages or from
\* the getdata branch of ProcessMessage
CallsProcessGetData(p) ==
    /\ last'.peer = p
    /\ \/ last'.op = "ProcessGetData"
       \/ last'.op = "ProcessMessage" /\ last'.arg = "getdata"

\* the queue the call works on
CallQueue(p) ==
    IF last'.op = "ProcessGetData" THEN m_getdata_requests[p]
    ELSE m_getdata_requests[p] \o last'.pre

\* the items the call took from the front of the queue
CallTaken(p) ==
    SubSeq(CallQueue(p), 1, Len(CallQueue(p)) - Len(m_getdata_requests'[p]))

(* C15: "for any two queued items, the response to the earlier item        *)
(* (transaction, block or notfound) is sent before the response to the     *)
(* later item": the items of the responses of a call, notfound included,   *)
(* are in the order of the queue.                                           *)
C15_ResponsesInQueueOrder ==
    [][\A p \in NodeIds :
          CallsProcessGetData(p) => IsSubSeq(ItemsOf(served'), CallTaken(p))]_vars

(* C15, as the code has it: a call takes items from the front of the queue  *)
(* and leaves the rest in order; the transactions and the block it sends    *)
(* are in the order of the queue; the transactions it does not find are     *)
(* named, in the order of the queue, in one notfound message, which is the  *)
(* last message of the call, after the responses to later items.  No       *)
(* message of the peer is processed while its queue holds items, and no    *)
(* other step touches the queue of a connected peer.                        *)
C15_DataInQueueOrder ==
    [][\A p \in NodeIds :
          LET data == SelectSeq(served', IsData)
              missing == SelectSeq(served', IsNotFound)
          IN
          /\ CallsProcessGetData(p) =>
                /\ Len(m_getdata_requests'[p]) <= Len(CallQueue(p))
                /\ CallQueue(p) = CallTaken(p) \o m_getdata_requests'[p]
                /\ IsSubSeq(ItemsOf(data), CallTaken(p))
                /\ IsSubSeq(ItemsOf(missing), CallTaken(p))
                /\ \A i \in 1..Len(data) :
                       Len(data[i].items) = 1 /\ data[i].items[1].kind = data[i].type
                /\ Len(missing) <= 1
                /\ missing # <<>> =>
                       /\ served'[Len(served')] = missing[1]
                       /\ \A i \in 1..Len(missing[1].items) :
                              missing[1].items[i].kind = "tx"
                /\ pushed' = ServedMsgs(p, served')
                /\ last'.op = "ProcessMessage" => m_getdata_requests[p] = <<>>
          /\ ~CallsProcessGetData(p) =>
                \/ m_getdata_requests'[p] = m_getdata_requests[p]
                \/ p \notin nodes' /\ m_getdata_requests'[p] = <<>>
          /\ (\A q \in NodeIds : ~CallsProcessGetData(q)) => served' = <<>>]_vars

\* a call paused by the send buffer left items in the queue, sent a
\* transaction that comes later in the queue than one it did not find, and
\* the notfound went last
C15_Witness ==
    /\ last.op = "ProcessGetData"
    /\ m_getdata_requests[last.peer] # <<>>
    /\ Len(served) = 2
    /\ served[1].type = "tx" /\ served[2].type = "notfound"
    /\ last.pre[1] = served[2].items[1]
    /\ last.pre[2] = served[1].items[1]

\* --- C16: what FinalizeNode removes
(* C16: "when a peer is disconnected, every in-flight block owned by it is  *)
(* removed from the global in-flight map and its tx announcements are       *)
(* discarded, so that when the last peer is removed the in-flight map is    *)
(* empty, the tx request tracker is empty, and the global counters          *)
(* (preferred-download peers, peers being downloaded from, protected        *)
(* outbound peers, wtxid-relay peers) are all zero": every block in flight  *)
(* and every announcement belongs to a connected peer, and without peers    *)
(* nothing is left.                                                          *)
C16_TeardownLeavesNothing ==
    /\ \A h \in Hashes : mapBlocksInFlight[h] \in nodes \cup {NoNode}
    /\ \A a \in m_txrequest : a.peer \in nodes
    /\ nodes = {} =>
          /\ \A h \in Hashes : mapBlocksInFlight[h] = NoNode
          /\ TxSize(m_txrequest) = 0
          /\ m_num_preferred_download_peers = 0
          /\ m_peers_downloading_from = 0
          /\ m_outbound_peers_with_protect_from_disconnect = 0
          /\ m_wtxid_relay_peers = 0

\* the last peer was removed while it had a block in flight and an
\* announcement in the tracker and counted for each of the four counters
C16_Witness ==
    /\ last.op = "FinalizeNode"
    /\ nodes = {}
    /\ last.pre.blocks > 0 /\ last.pre.announcements > 0
    /\ last.pre.preferred /\ last.pre.protect /\ last.pre.wtxid_relay

\* --- C17: wtxidrelay and sendaddrv2 outside the handshake
C17_Negotiation == {"wtxidrelay", "sendaddrv2"}

(* C17: "a wtxidrelay or sendaddrv2 message must arrive between the peer's  *)
(* version and verack: one that arrives at any other time (before version,  *)
(* or after verack) causes the peer to be disconnected".                    *)
C17_DisconnectedOutsideHandshake ==
    [][\A p \in NodeIds, t \in C17_Negotiation :
          (Received(p, t) /\ (nVersion[p] = 0 \/ fSuccessfullyConnected[p]))
          => fDisconnect'[p]]_vars

(* C17, as the code has it: a wtxidrelay or sendaddrv2 message that arrives *)
(* after verack gets the peer disconnected and changes nothing else; one    *)
(* that arrives before version is ignored like every other message then,    *)
(* and the peer stays connected; one that arrives between version and       *)
(* verack takes effect and does not disconnect.                             *)
C17_DisconnectedAfterVerack ==
    [][\A p \in NodeIds, t \in C17_Negotiation :
          Received(p, t) =>
              /\ fSuccessfullyConnected[p] =>
                     /\ fDisconnect'[p]
                     /\ m_wtxid_relay' = m_wtxid_relay
                     /\ m_wtxid_relay_peers' = m_wtxid_relay_peers
                     /\ m_wants_addrv2' = m_wants_addrv2
              /\ nVersion[p] = 0 => WasIgnored /\ ~fDisconnect'[p]
              /\ (nVersion[p] # 0 /\ ~fSuccessfullyConnected[p]) =>
                     /\ ~fDisconnect'[p]
                     /\ t = "sendaddrv2" => m_wants_addrv2'[p]
                     /\ (t = "wtxidrelay" /\ GetCommonVersion(p) >= WTXID_RELAY_VERSION)
                            => m_wtxid_relay'[p]
                     /\ m_wtxid_relay_peers' =
                            m_wtxid_relay_peers
                                + (IF m_wtxid_relay'[p] /\ ~m_wtxid_relay[p] THEN 1 ELSE 0)]_vars

\* a wtxidrelay message has arrived before the version message and the peer
\* is still connected
C17_Witness ==
    /\ last.op = "ProcessMessage"
    /\ last.arg = "wtxidrelay"
    /\ last.peer \in nodes
    /\ nVersion[last.peer] = 0
    /\ ~fDisconnect[last.peer]
    /\ ~m_wtxid_relay[last.peer]

\* --- C18: the type of a tx announcement
\* the step is the receipt, after the handshake, of an inv message of p
\* within the size limit whose entry announces a transaction
ReceivesTxInv(p) ==
    /\ Received(p, "inv")
    /\ nVersion[p] # 0 /\ fSuccessfullyConnected[p]
    /\ last'.pre.kind \in {"tx", "wtx"}
    /\ ~last'.pre.oversize

\* the entry has the type that does not match the wtxidrelay setting of p
WrongInvType(p) ==
    IF m_wtxid_relay[p] THEN last'.pre.kind = "tx" ELSE last'.pre.kind = "wtx"

(* C18: "in an inv message, a wtxid-relay peer must announce transactions   *)
(* with MSG_WTX and any other peer with MSG_TX; a peer that announces a     *)
(* transaction with the wrong type is disconnected".                        *)
C18_WrongTypeDisconnects ==
    [][\A p \in NodeIds :
          ReceivesTxInv(p) /\ WrongInvType(p) => fDisconnect'[p]]_vars

(* C18, as the code has it: an entry of the wrong type is skipped: the     *)
(* peer is not disconnected and nothing is announced to the tx request     *)
(* tracker.  An entry of the right type gets the peer disconnected when    *)
(* the node rejects transactions from it (a block-relay-only connection),  *)
(* and is else given to the tracker unless the node has the transaction or *)
(* is in initial block download.                                            *)
C18_WrongTypeIgnored ==
    [][\A p \in NodeIds :
          ReceivesTxInv(p) =>
              LET gtxid == GenTxid(last'.pre.tx, last'.pre.kind = "wtx")
                  announced == \E a \in m_txrequest' : a.peer = p /\ a.gtxid = gtxid
              IN
              /\ WrongInvType(p) =>
                     /\ WasIgnored
                     /\ ~fDisconnect'[p]
                     /\ m_txrequest' = m_txrequest
              /\ (~WrongInvType(p) /\ RejectIncomingTxs(p)) =>
                     fDisconnect'[p] /\ m_txrequest' = m_txrequest
              /\ (~WrongInvType(p) /\ ~RejectIncomingTxs(p)) =>
                     /\ ~fDisconnect'[p]
                     /\ (~last'.pre.have /\ ~ibd) => announced
                     /\ (last'.pre.have \/ ibd) => m_txrequest' = m_txrequest]_vars

\* a wtxid-relay peer on a block-relay-only connection has announced a
\* transaction by txid and is still connected
C18_Witness ==
    /\ last.op = "ProcessMessage" /\ last.arg = "inv"
    /\ last.peer \in nodes
    /\ fSuccessfullyConnected[last.peer]
    /\ m_wtxid_relay[last.peer]
    /\ IsBlockOnlyConn(cnode[last.peer])
    /\ last.pre.kind = "tx"
    /\ ~last.pre.oversize
    /\ ~fDisconnect[last.peer]

\* --- C19: getaddr is answered once, to inbound peers
\* the step is the receipt of a getaddr message of p after the handshake
ReceivesGetAddr(p) ==
    Received(p, "getaddr") /\ nVersion[p] # 0 /\ fSuccessfullyConnected[p]

(* C19: "getaddr is answered only for inbound peers and only once per       *)
(* connection: a getaddr from an outbound peer, and every getaddr after     *)
(* the first on the same connection, queues no addresses for that peer".    *)
(* The first getaddr of an inbound peer replaces the queue by the           *)
(* addresses of GetAddresses (last'.pre of them) and is remembered until    *)
(* the peer is finalized.                                                    *)
C19_GetAddrOnceInbound ==
    [][\A p \in NodeIds :
          /\ ReceivesGetAddr(p) =>
                /\ (~IsInboundConn(cnode[p]) \/ m_getaddr_recvd[p]) =>
                       /\ m_addrs_to_send' = m_addrs_to_send
                       /\ m_getaddr_recvd' = m_getaddr_recvd
                       /\ pushed' = <<>>
                /\ (IsInboundConn(cnode[p]) /\ ~m_getaddr_recvd[p]) =>
                       /\ m_getaddr_recvd'[p]
                       /\ m_addrs_to_send'[p] = [i \in 1..last'.pre |-> i]
          /\ (m_getaddr_recvd[p] /\ ~m_getaddr_recvd'[p]) => Did("FinalizeNode", p)
          /\ m_getaddr_recvd'[p] => p \in nodes' /\ IsInboundConn(cnode'[p])]_vars

\* an inbound peer whose first getaddr was answered and sent has asked
\* again, for two addresses or more, and its queue is empty
C19_Witness ==
    /\ last.op = "ProcessMessage" /\ last.arg = "getaddr"
    /\ last.pre >= 2
    /\ IsInboundConn(cnode[last.peer])
    /\ fSuccessfullyConnected[last.peer]
    /\ m_getaddr_recvd[last.peer]
    /\ m_addrs_to_send[last.peer] = <<>>

\* --- C20: the limit of m_addrs_to_send
\* the places at which the queue of p differs after the step
AddrsReplaced(p) ==
    {i \in 1..Len(m_addrs_to_send[p]) : m_addrs_to_send'[p][i] # m_addrs_to_send[p][i]}

(* C20: "a peer's queue of addresses to send never holds more than 1000     *)
(* entries: pushing an address while the queue already holds 1000 replaces  *)
(* one randomly chosen existing entry instead of growing the queue".  A     *)
(* step that changes a queue of MAX_ADDR_TO_SEND entries either empties it  *)
(* (the addresses are sent, the first getaddr is answered, the peer is      *)
(* finalized) or leaves its length and replaces one entry.                  *)
C20_AtMost1000Queued ==
    [][\A p \in NodeIds :
          /\ Len(m_addrs_to_send'[p]) <= MAX_ADDR_TO_SEND
          /\ (/\ Len(m_addrs_to_send[p]) = MAX_ADDR_TO_SEND
              /\ m_addrs_to_send'[p] # m_addrs_to_send[p]
              /\ ~Did("FinalizeNode", p) /\ ~Received(p, "getaddr")
              /\ pushed' = <<>>) =>
                 /\ Len(m_addrs_to_send'[p]) = MAX_ADDR_TO_SEND
                 /\ Cardinality(AddrsReplaced(p)) = 1]_vars

\* a queue of MAX_ADDR_TO_SEND addresses of GetAddresses in which the last
\* one was replaced by a relayed address
C20_Witness ==
    \E p \in nodes :
        /\ Len(m_addrs_to_send[p]) = MAX_ADDR_TO_SEND
        /\ m_addrs_to_send[p][MAX_ADDR_TO_SEND] = RelayedAddr
        /\ m_addrs_to_send[p][1] = 1

\* --- C21: the announcements tracked for a peer
\* the step is the receipt, after the handshake, of an inv message of p that
\* announces transactions the node takes from p
ReceivesAnnouncements(p) ==
    /\ ReceivesTxInv(p)
    /\ ~WrongInvType(p) /\ ~RejectIncomingTxs(p)
    /\ ~last'.pre.have /\ ~ibd

\* the announcements of the message that p has not made before
NewlyAnnounced(p) ==
    (last'.pre.tx .. last'.pre.upto)
        \ {a.gtxid.tx : a \in {b \in m_txrequest : b.peer = p}}

(* C21: "for a peer without the relay permission, the number of tx          *)
(* announcements tracked for that peer never exceeds 5000; an announcement  *)
(* that arrives when the peer is at the limit is dropped silently (no       *)
(* tracking, no misbehavior points, no disconnect)".  Of the new            *)
(* announcements of a message as many are tracked as the limit leaves room  *)
(* for.                                                                     *)
C21_AtMost5000Tracked ==
    [][\A p \in NodeIds :
          /\ TxCount(m_txrequest', p) <= MAX_PEER_TX_ANNOUNCEMENTS
          /\ ReceivesAnnouncements(p) =>
                /\ TxCount(m_txrequest', p) =
                       Min(TxCount(m_txrequest, p) + Cardinality(NewlyAnnounced(p)),
                           MAX_PEER_TX_ANNOUNCEMENTS)
                /\ TxCount(m_txrequest, p) = MAX_PEER_TX_ANNOUNCEMENTS =>
                       /\ m_txrequest' = m_txrequest
                       /\ WasIgnored
                       /\ ~fDisconnect'[p]]_vars

\* a peer with 5000 announcements tracked has announced one more
\* transaction, and is still connected with no misbehavior score
C21_Witness ==
    /\ last.op = "ProcessMessage" /\ last.arg = "inv"
    /\ last.pre.tx = MAX_PEER_TX_ANNOUNCEMENTS + 1
    /\ TxCount(m_txrequest, last.peer) = MAX_PEER_TX_ANNOUNCEMENTS
    /\ ~\E a \in m_txrequest : a.gtxid.tx = MAX_PEER_TX_ANNOUNCEMENTS + 1
    /\ ~fDisconnect[last.peer]
    /\ m_misbehavior_score[last.peer] = 0

\* --- C22: the punishment for BLOCK_CACHED_INVALID
\* the step is the receipt, after the handshake, of a header of p, in a
\* message of type t, that validation rejects as BLOCK_CACHED_INVALID
CachedInvalidFrom(p, t) ==
    /\ Received(p, t)
    /\ nVersion[p] # 0 /\ fSuccessfullyConnected[p] /\ ~fImporting
    /\ last'.pre.valid = "BLOCK_CACHED_INVALID"

ScoreGain(p) == m_misbehavior_score'[p] - m_misbehavior_score[p]

(* C22: "a block validation failure of kind BLOCK_CACHED_INVALID gives the  *)
(* delivering peer 100 misbehavior points if that peer is outbound and no   *)
(* points if it is inbound".                                                *)
C22_OutboundPunished ==
    [][\A p \in NodeIds, t \in {"headers", "cmpctblock"} :
          CachedInvalidFrom(p, t) =>
              ScoreGain(p) = IF IsInboundConn(cnode[p]) THEN 0 ELSE 100]_vars

(* C22, as the code has it: the peer gets 100 points if it is outbound and  *)
(* the header did not come in a compact block; an inbound peer and a peer   *)
(* that sent a compact block get none.                                      *)
C22_OutboundNotCompactPunished ==
    [][\A p \in NodeIds :
          /\ CachedInvalidFrom(p, "headers") =>
                ScoreGain(p) = IF IsInboundConn(cnode[p]) THEN 0 ELSE 100
          /\ CachedInvalidFrom(p, "cmpctblock") => ScoreGain(p) = 0]_vars

\* an outbound peer has sent a compact block whose header is
\* BLOCK_CACHED_INVALID and has no misbehavior score
C22_Witness ==
    /\ last.op = "ProcessMessage" /\ last.arg = "cmpctblock"
    /\ last.pre.valid = "BLOCK_CACHED_INVALID"
    /\ fSuccessfullyConnected[last.peer]
    /\ ~IsInboundConn(cnode[last.peer])
    /\ m_misbehavior_score[last.peer] = 0

\* --- C23: getblocks and getheaders in initial block download
\* the step is the receipt, after the handshake, of a request of type t of p
\* whose locator is within the size limit
ReceivesLocator(p, t) ==
    /\ Received(p, t)
    /\ nVersion[p] # 0 /\ fSuccessfullyConnected[p]
    /\ ~last'.pre.oversize

HeadersPushed == \E i \in 1..Len(pushed') : pushed'[i].type = "headers"

HeadersSyncTimedOut(p) ==
    /\ Did("SendMessages", p)
    /\ SendReady(p) /\ ~fDisconnect[p] /\ ~m_should_discourage[p]
    /\ last'.arg \in {"", "headers_timeout"}
    /\ fSyncStarted[p]
    /\ m_headers_sync_timeout[p] # NoTimeout
    /\ ~best_header_recent
    /\ now > m_headers_sync_timeout[p]

\* there is a preferred-download peer other than p
OtherCandidates(p) ==
    m_num_preferred_download_peers - (IF fPreferredDownload[p] THEN 1 ELSE 0) >= 1

\* the peer's headers sync state is reset
SyncReset(p) ==
    /\ ~fSyncStarted'[p]
    /\ nSyncStarted' = nSyncStarted - 1
    /\ m_headers_sync_timeout'[p] = 0

(* C24: "when a peer's headers sync has not progressed within its timeout:  *)
(* if other candidate (preferred-download) peers exist, the peer is         *)
(* disconnected; otherwise the peer's sync state is reset so that headers   *)
(* sync is retried with another peer".  As stated: a timed-out sync peer   *)
(* is disconnected when another preferred-download peer exists, and has     *)
(* its sync state reset when none does.                                     *)
C24_DisconnectOrReset ==
    [][\A p \in NodeIds :
          HeadersSyncTimedOut(p) =>
              IF OtherCandidates(p) THEN fDisconnect'[p] ELSE SyncReset(p)]_vars

(* C24, as the code has it: the timeout acts only on the single sync peer   *)
(* while another preferred-download peer exists; such a peer is             *)
(* disconnected unless it has the NoBan permission, and a NoBan peer stays  *)
(* connected with its sync state reset (fSyncStarted false, nSyncStarted    *)
(* one less, timeout 0).  With no other preferred-download peer the peer    *)
(* stays connected and remains the sync peer, its timeout unchanged.        *)
C24_TimeoutNeedsCandidates ==
    [][\A p \in NodeIds :
          HeadersSyncTimedOut(p) =>
              IF ~(OtherCandidates(p) /\ nSyncStarted = 1)
              THEN /\ last'.arg = ""
                   /\ fSyncStarted'[p] /\ nSyncStarted' = nSyncStarted
                   /\ m_headers_sync_timeout'[p] = m_headers_sync_timeout[p]
              ELSE IF cnode[p].noban
              THEN last'.arg = "" /\ ~fDisconnect'[p] /\ SyncReset(p)
              ELSE last'.arg = "headers_timeout" /\ fDisconnect'[p] /\ fSyncStarted'[p]]_vars

\* past the timeout SendMessages ran for a sync peer without the NoBan
\* permission while another preferred-download peer was connected, and
\* disconnected it
C24_Witness ==
    \E p \in nodes :
        /\ last.op = "SendMessages" /\ last.peer = p /\ last.arg = "headers_timeout"
        /\ fDisconnect[p] /\ ~cnode[p].noban
        /\ fSyncStarted[p] /\ now > m_headers_sync_timeout[p]
        /\ \E q \in nodes \ {p} : fPreferredDownload[q]

\* a getdata goes out to the peer
GetDataPushedTo(p) == pushed' = <<Msg(p, "getdata")>>

(* C25: "FetchBlock(peer, block) returns no error (nullopt) exactly when a *)
(* request for the block was successfully made, i.e. a getdata for it was  *)
(* sent to that peer; in every other case it returns an error message".    *)
(* A call returns nullopt when it pushed one getdata to the peer, left the *)
(* block in flight from that peer, and otherwise pushes nothing and        *)
(* returns one of the error messages.                                      *)
C25_NulloptIffRequested ==
    [][\A p \in NodeIds :
          Did("FetchBlock", p) =>
              /\ last'.ret = (last'.arg = NoError)
              /\ last'.ret = GetDataPushedTo(p)
              /\ last'.ret => mapBlocksInFlight'[last'.pre] = p
              /\ ~last'.ret => (pushed' = <<>> /\ last'.arg \in FetchErrors)]_vars

\* FetchBlock found the peer not fully connected: it returned the error and
\* sent nothing, the block being marked as in flight from the peer
C25_Witness ==
    /\ last.op = "FetchBlock"
    /\ last.arg = "Peer not fully connected"
    /\ pushed = <<>>
    /\ mapBlocksInFlight[last.pre] = last.peer

\* FetchBlock returned nullopt
C25_Requested ==
    /\ last.op = "FetchBlock" /\ last.ret
    /\ pushed = <<Msg(last.peer, "getdata")>>

\* FinalizeNode records the peer's address as connected to
RecordsConnected(p) == Did("FinalizeNode", p) /\ last'.arg = cnode[p].addr

(* C26: "when a connection closes, a successful connection is recorded to  *)
(* AddrMan (Connected) for every connection that completed the handshake   *)
(* and is neither inbound nor a feeler, and for no other connection".  As  *)
(* stated: FinalizeNode calls Connected exactly for the handshaked         *)
(* connections that are neither inbound nor feelers.                       *)
C26_RecordedUnlessInboundOrFeeler ==
    [][\A p \in NodeIds :
          Did("FinalizeNode", p) =>
              (RecordsConnected(p) <=>
                   /\ fSuccessfullyConnected[p]
                   /\ ~IsInboundConn(cnode[p])
                   /\ ~IsFeelerConn(cnode[p]))]_vars

(* C26, as the code has it: Connected is called exactly for the handshaked *)
(* connections that are neither inbound nor block-relay-only and whose     *)
(* misbehaviour score is 0; a feeler never completes the handshake and is  *)
(* never recorded.                                                         *)
C26_RecordedFullOutboundOnly ==
    [][\A p \in NodeIds :
          Did("FinalizeNode", p) =>
              /\ RecordsConnected(p) <=>
                     /\ fSuccessfullyConnected[p]
                     /\ m_misbehavior_score[p] = 0
                     /\ ~IsInboundConn(cnode[p])
                     /\ ~IsBlockOnlyConn(cnode[p])
              /\ ~RecordsConnected(p) => last'.arg = NoAddr
              /\ IsFeelerConn(cnode[p]) => ~fSuccessfullyConnected[p]]_vars

\* a handshaked outbound connection with no misbehaviour was closed and its
\* address handed to AddrMan::Connected
C26_Witness ==
    /\ last.op = "FinalizeNode"
    /\ last.arg = last.pre.conn.addr
    /\ last.pre.connected /\ last.pre.score = 0
    /\ IsFullOutboundConn(last.pre.conn) \/ IsManualConn(last.pre.conn)

\* a handshaked block-relay-only connection, or an outbound one that
\* misbehaved, was closed and not recorded
C26_NotRecorded ==
    /\ last.op = "FinalizeNode"
    /\ last.arg = NoAddr
    /\ last.pre.connected
    /\ IsBlockOnlyConn(last.pre.conn) \/ (IsFullOutboundConn(last.pre.conn) /\ last.pre.score > 0)

\* SendMessages runs for a peer that has completed the handshake and is not
\* marked for disconnection or discouragement: it gets to the timeout checks
TicksSend(p) ==
    /\ Did("SendMessages", p)
    /\ SendReady(p) /\ ~fDisconnect[p] /\ ~m_should_discourage[p]

\* the peers other than p that have blocks in flight
OtherDownloaders(p) == {q \in nodes \ {p} : nBlocksInFlight[q] > 0}

\* the block at the front of the peer's queue has been downloading for longer
\* than nPowTargetSpacing * (1 + 0.5 * N)
FrontOverdue(p) ==
    /\ vBlocksInFlight[p] # <<>>
    /\ 2 * (now - m_downloading_since[p])
           > nPowTargetSpacing * (2 + Cardinality(OtherDownloaders(p)))

\* the block is in flight from the handshaked peer, whose front block is overdue
HeldOverdue(p, h) == SendReady(p) /\ mapBlocksInFlight[h] = p /\ FrontOverdue(p)

(* C27: "a block request does not stay assigned to an unresponsive peer     *)
(* forever: once the block at the front of a peer's in-flight queue has     *)
(* been downloading for longer than nPowTargetSpacing*(1 + 0.5*N), N being  *)
(* the number of other peers with blocks in flight, the next tick_send      *)
(* disconnects that peer, and its disconnect releases its in-flight blocks  *)
(* so that they become requestable from another peer".  A SendMessages for  *)
(* a handshaked peer whose front block is overdue marks the peer for        *)
(* disconnection, and does not do so for the block timeout before;          *)
(* FinalizeNode leaves none of the peer's blocks in flight; and a block     *)
(* held by an overdue peer is released, unless the front block stops being  *)
(* overdue.                                                                 *)
C27_OverduePeerLetGo ==
    /\ [][\A p \in NodeIds :
             /\ TicksSend(p) =>
                    /\ FrontOverdue(p) =>
                           (fDisconnect'[p] /\ last'.arg \in {"stalling", "block_timeout"})
                    /\ last'.arg = "block_timeout" => FrontOverdue(p)
             /\ Did("FinalizeNode", p) =>
                    \A h \in Hashes :
                        mapBlocksInFlight[h] = p =>
                            (mapBlocksInFlight'[h] = NoNode /\ ~IsBlockRequested(h)')]_vars
    /\ \A p \in StallNodes, h \in Hashes :
           HeldOverdue(p, h) ~> (mapBlocksInFlight[h] # p \/ ~FrontOverdue(p))

\* past the timeout a peer has gone and a block is requested from the peer
\* that remains
C27_RequestedAgain ==
    \E p \in StallNodes, h \in Hashes :
        /\ p \notin nodes
        /\ last.op = "FetchBlock" /\ last.ret /\ last.pre = h
        /\ mapBlocksInFlight[h] = last.peer /\ last.peer # p
        /\ now > HdrStart + nPowTargetSpacing

\* SendMessages disconnected a peer for the block timeout while the other
\* peer was downloading
C27_Witness ==
    \E p \in nodes :
        /\ last.op = "SendMessages" /\ last.peer = p /\ last.arg = "block_timeout"
        /\ fDisconnect[p]
        /\ OtherDownloaders(p) # {}

\* the thread holds the peer-map mutex and, locked before it, a mutex of Peer
PeerMapLockedLast(t) ==
    \E i, j \in 1..Len(threads[t].held) :
        /\ i < j
        /\ threads[t].held[i] \in PeerMutexes
        /\ threads[t].held[j] = "m_peer_mutex"

PeerMutexesHeld(t) == HeldBy_Thread(t) \cap PeerMutexes

\* the mutexes of Peer that are held across the call
HeldAcross(c) ==
    CASE c = "PushMessage" ->
             {"m_getdata_requests_mutex", "m_block_inv_mutex", "m_tx_inventory_mutex",
              "m_addr_send_times_mutex", "m_headers_sync_mutex"}
      [] c = "ActivateBestChain" -> {"m_getdata_requests_mutex"}
      [] c = "ProcessNewBlockHeaders" -> {}

InFlight(t, gtxid) == {a \in t : a.gtxid = gtxid /\ a.st = "requested"}

\* the announcement of p for the hash before the step
AnnouncementOf(p, gtxid) == CHOOSE a \in m_txrequest : a.peer = p /\ a.gtxid = gtxid

\* a is asked before b: the earlier reqtime, and the tiebreaker where they
\* are the same
AskedBefore(a, b) ==
    a.reqtime < b.reqtime \/ (a.reqtime = b.reqtime /\ a.peer < b.peer)

\* the step asks p for the hash
Asks(p, gtxid) == InFlightFrom(p, gtxid)' /\ ~InFlightFrom(p, gtxid)

\* the step handles a notfound of p for the hash that is not too long
AnswersNotFound(p, gtxid) ==
    /\ Did("ProcessMessage", p) /\ last'.arg = "notfound"
    /\ ~last'.pre.oversize /\ last'.pre.item = gtxid

\* all the peers were asked and none has the request any more
AllAnswered(gtxid) ==
    /\ \A p \in ProgressNodes : WasAsked(p, gtxid)
    /\ InFlight(m_txrequest, gtxid) = {}

(* C30: "For a transaction hash announced by k peers, when every request  *)
(* is answered by a notfound from the asked peer: the hash is requested   *)
(* from one peer at a time, every peer is asked at most once, the peers   *)
(* are asked in the order determined by announcement time and tiebreaker, *)
(* and after the k-th notfound no announcement for the hash remains       *)
(* tracked": at most one announcement of the hash is in flight; a peer is *)
(* asked by a getdata of SendMessages for it, was not asked before, and   *)
(* its announcement comes before every other candidate that is tracked;   *)
(* the notfound of a peer removes its announcement and no other; and once *)
(* all the peers were asked and have answered nothing is tracked.         *)
C30_OneByOneInOrder ==
    /\ [](Cardinality(InFlight(m_txrequest, ProgressTx)) <= 1)
    /\ [](AllAnswered(ProgressTx) => m_txrequest = {})
    /\ [][\A p \in NodeIds :
            /\ Asks(p, ProgressTx) =>
                  /\ Did("SendMessages", p)
                  /\ Msg(p, "getdata") \in Range(pushed')
                  /\ ~WasAsked(p, ProgressTx)
                  /\ InFlight(m_txrequest, ProgressTx) = {}
                  /\ \A b \in m_txrequest :
                        b.peer # p => AskedBefore(AnnouncementOf(p, ProgressTx), b)
            /\ AnswersNotFound(p, ProgressTx) =>
                  m_txrequest' = {a \in m_txrequest : a.peer # p}]_vars

\* the third notfound arrived and nothing is tracked any more
C30_Witness ==
    /\ last.op = "ProcessMessage" /\ last.arg = "notfound"
    /\ AllAnswered(ProgressTx)
    /\ m_txrequest = {}

\* the peer that connected last was asked first, and the others wait
C30_PreferredAskedFirst ==
    /\ asked = {[peer |-> 3, gtxid |-> ProgressTx]}
    /\ Announced(1, ProgressTx) /\ Announced(2, ProgressTx)
    /\ ~Announced(3, ProgressTx)


\* --- C31: what a Golomb-coded set matches
\* the elements of the set whose hash is that of the element
SameHash(element) ==
    {x \in filter.elements : HashToRange(filter, x) = HashToRange(filter, element)}

Matched(element) ==
    filter.query.kind = "Match" /\ filter.query.of = {element} /\ filter.query.result

(* C31: "For every element set E and filter parameters, match(encode(E),  *)
(* e) is true exactly when the hashed value h(e) equals the hashed value   *)
(* of some member of E; in particular it is true for every member e of E   *)
(* (no false negatives)": Match of the filter built from E returns true    *)
(* for an element if and only if an element of E has its hash, and so for  *)
(* every element of E.                                                     *)
C31_MatchIffHashOfMember ==
    \A element \in Elements :
        filter.query.kind = "Match" /\ filter.query.of = {element} =>
            /\ filter.query.result <=> SameHash(element) # {}
            /\ element \in filter.elements => filter.query.result

\* a member of a set of three with three different hashes is matched, the
\* greatest of them
C31_Witness ==
    /\ Cardinality(filter.elements) = 3
    /\ Cardinality({HashToRange(filter, x) : x \in filter.elements}) = 3
    /\ \E element \in filter.elements :
          /\ Matched(element)
          /\ \A x \in filter.elements : HashToRange(filter, x) <= HashToRange(filter, element)

\* an element that is not in the set is matched: its hash is that of a member
C31_FalsePositive ==
    \E element \in Elements \ filter.elements : Matched(element)

\* an element that is not in the set is not matched
C31_NoMatch ==
    \E element \in Elements :
        /\ filter.elements # {}
        /\ filter.query.kind = "Match" /\ filter.query.of = {element}
        /\ ~filter.query.result


\* --- C32: ChaCha20 Crypt undoes itself
\* Crypt was called twice on the data, from the same block counter
CryptedTwiceMatched ==
    Len(cipher.starts) = 2 /\ cipher.starts[1] = cipher.starts[2]

(* C32: "For matched key, IV and starting counter, ChaCha20 crypt is its   *)
(* own inverse: crypt(crypt(x)) = x for every input x of every byte        *)
(* length, including lengths that are not a multiple of 64": after two     *)
(* calls of Crypt on the data that began at the same block counter, with   *)
(* the key and the nonce of the cipher, the data is the message x again.   *)
C32_CryptTwiceIsIdentity == CryptedTwiceMatched => cipher.data = cipher.x

\* a message of 130 bytes, two blocks and a rest, was encrypted and
\* decrypted from the last block counter before the lower word wraps
C32_Witness ==
    /\ CryptedTwiceMatched
    /\ Len(cipher.x) = 130
    /\ cipher.starts[1] = UInt64(Word(0, 0), Word(Half - 1, Half - 1))
    /\ Counter(cipher.input) = UInt64(Word(0, 1), Word(0, 2))
    /\ cipher.data = cipher.x

\* after one call the data is not the message
C32_Encrypted ==
    /\ Len(cipher.starts) = 1 /\ Len(cipher.x) = 65
    /\ \A i \in 1..65 : cipher.data[i] # cipher.x[i]

\* the second call began where the first one ended and gives something else
C32_Unmatched ==
    /\ Len(cipher.starts) = 2 /\ cipher.starts[1] # cipher.starts[2]
    /\ cipher.data # cipher.x


\* --- C40: the key stream over several calls
RECURSIVE SumOf(_)
SumOf(s) == IF s = <<>> THEN 0 ELSE Head(s) + SumOf(Tail(s))

\* what a single call of Keystream from the block counter the cipher started
\* from writes for the bytes of all the calls
SingleCall == Keystream(Seek(cipher.input, cipher.pos), SumOf(cipher.lens)).out

\* every call but the last one was for whole blocks
OnlyLastPartial ==
    \A i \in 1..(Len(cipher.lens) - 1) : cipher.lens[i] % 64 = 0

\* the number of blocks a call for the bytes takes
BlocksOf(bytes) == (bytes + 63) \div 64

\* the blocks from the i-th call on
RECURSIVE BlocksFrom(_, _)
BlocksFrom(lens, i) ==
    IF i > Len(lens) THEN 0 ELSE BlocksOf(lens[i]) + BlocksFrom(lens, i + 1)

\* the block counter after n blocks
RECURSIVE Forward(_, _)
Forward(input, n) == IF n = 0 THEN input ELSE Forward(NextBlock(input), n - 1)

(* The claim as it is written: "ChaCha20 output is one continuous          *)
(* keystream at byte granularity: from the same key, IV and counter,       *)
(* keystream(a) followed by keystream(b) yields the same a+b bytes as a     *)
(* single keystream(a+b), for all byte lengths a and b including a that is *)
(* not a multiple of 64".                                                  *)
C40_ContinuousAtBytes == cipher.out = SingleCall

(* C40, as the code has it: the calls of Keystream give the bytes of a     *)
(* single call if every call but the last is for a multiple of 64 bytes;   *)
(* a call for other lengths takes a whole block for its rest and the next  *)
(* call begins at the block after it, so that the block counter is ahead   *)
(* by the blocks of all the calls, and after a call for a length that is   *)
(* not a multiple of 64 the bytes of the next call are not those that      *)
(* follow in the stream.                                                   *)
C40_ContinuousAtBlocks ==
    /\ OnlyLastPartial => cipher.out = SingleCall
    /\ cipher.input = Forward(Seek(cipher.input, cipher.pos),
                              BlocksFrom(cipher.lens, 1))
    /\ (~OnlyLastPartial /\ cipher.lens[2] > 0) => cipher.out # SingleCall

\* 64 bytes and then 65 bytes were taken: the 129 bytes of a single call
C40_Witness ==
    /\ cipher.lens = <<64, 65>>
    /\ cipher.out = SingleCall
    /\ Len(cipher.out) = 129

\* 1 byte and then 63 bytes were taken: the second call began at the second
\* block, and the 64 bytes are not the first block of the stream
C40_RestDropped ==
    /\ cipher.lens = <<1, 63>>
    /\ cipher.out # SingleCall
    /\ SubSeq(cipher.out, 2, 64)
           = SubSeq(KeystreamBlock(NextBlock(Seek(cipher.input, cipher.pos))), 1, 63)


\* ---------------------------------------------------------------------- C33
\* the positions an address has in the tried and in the new table
TriedPositionsOf(a) == {t \in TriedBuckets : addrman.vvTried[t] = a}
NewPositionsOf(a) == NewBucketsOf(addrman, a)

\* C33: after any sequence of Add, Good, Attempt and ResolveCollisions an
\* address of the tried table has exactly one position, which is in the
\* tried table, and an address of the new table is in as many new buckets as
\* its reference count says, at most ADDRMAN_NEW_BUCKETS_PER_ADDRESS (8),
\* and in no tried bucket.
C33_Multiplicity ==
    \A a \in ManAddrs :
        LET info == addrman.mapInfo[a]
        IN /\ info.fInTried =>
                  /\ Cardinality(TriedPositionsOf(a)) = 1
                  /\ NewPositionsOf(a) = {}
           /\ ~info.fInTried =>
                  /\ TriedPositionsOf(a) = {}
                  /\ Cardinality(NewPositionsOf(a)) = info.nRefCount
                  /\ info.nRefCount <= 8
           /\ (info.known /\ ~info.fInTried) => info.nRefCount >= 1

\* an address is in eight new buckets while another one, which was in new
\* buckets before, is in the tried table, and a third one waits for a tried
\* position that is taken
C33_Witness ==
    /\ \E a \in ManAddrs : Cardinality(NewPositionsOf(a)) = ADDRMAN_NEW_BUCKETS_PER_ADDRESS
    /\ \E a \in ManAddrs : addrman.mapInfo[a].fInTried
    /\ addrman.m_tried_collisions # {}

\* an address that had a tried position is back in the new table, driven out
\* by the address that collided with it
C33_Evicted ==
    \E a, b \in ManAddrs :
        /\ a # b /\ GetTriedBucket(a) = GetTriedBucket(b)
        /\ addrman.mapInfo[a].fInTried
        /\ addrman.mapInfo[b].m_last_success = "recent"
        /\ ~addrman.mapInfo[b].fInTried /\ addrman.mapInfo[b].nRefCount = 1


\* ---------------------------------------------------------------------- C34
\* C34: for every peer the number of blocks in flight from it is at most
\* MAX_BLOCKS_IN_TRANSIT_PER_PEER (16), whichever path made the requests; the
\* manual FetchBlock is one of them.
C34_AtMostSixteenInFlight ==
    \A p \in NodeIds :
        /\ nBlocksInFlight[p] <= 16
        /\ Len(vBlocksInFlight[p]) <= 16


\* ---------------------------------------------------------------------- C35
\* the blocks newly recorded as in flight from the peer by the step
NewlyInFlight(p) == Range(vBlocksInFlight'[p]) \ Range(vBlocksInFlight[p])

\* the step pushes a getdata to the peer
GetDataAmongPushed(p) == \E i \in 1..Len(pushed') : pushed'[i] = Msg(p, "getdata")

C35_Evicted ==
    /\ last.op = "SendMessages" /\ last.arg = ""
    /\ fDisconnect[last.peer]
    /\ ran = SendSteps


\* ---------------------------------------------------------------- C36
\* what ProcessMessages and the handlers work on, beside the messages pushed
\* and the time of the last getheaders of a peer
decodeKept ==
    <<now, connVars, hsVars, addrVars, chainVars, extVars, misbVars, blkVars,
      m_headers_sync, nUnconnectingHeaders, fSyncStarted, nSyncStarted,
      m_headers_sync_timeout, pindexBestKnownBlock, m_chain_sync,
      m_outbound_peers_with_protect_from_disconnect,
      m_inv_triggered_getheaders_before_sync, m_last_block_inv_triggering_headers_sync>>

\* the step handled a message whose payload failed to decode
Threw(op) == op.op = "ProcessMessage" /\ op.ret

C36_Other ==
    /\ Threw(last)
    /\ last.arg = "inv"
    /\ fSuccessfullyConnected[last.peer]
    /\ m_last_getheaders_timestamp[last.peer] # 0


\* ---------------------------------------------------------------- C37
\* C37: whenever FetchBlock returns an error message, the blocks in flight
\* are as before the call: the block is not newly recorded as in flight
\* from the peer and no request for it from another peer is removed
C37_ErrorKeepsInFlight ==
    [][(last'.op = "FetchBlock" /\ last'.arg \in FetchErrors) =>
          UNCHANGED <<mapBlocksInFlight, vBlocksInFlight, nBlocksInFlight>>]_vars

\* FetchBlock returned "Peer not fully connected" and the block, which was
\* in flight from the other peer, is in flight from the peer of the call
C37_Recorded ==
    /\ last.op = "FetchBlock"
    /\ last.arg = "Peer not fully connected"
    /\ mapBlocksInFlight[last.pre] = last.peer
    /\ \E q \in nodes \ {last.peer} : nBlocksInFlight[q] = 0 /\ m_downloading_since[q] # 0


\* ---------------------------------------------------------------- C38
\* the peer has the NoBan permission or is a manually added connection
Exempt(p) == cnode[p].noban \/ IsManualConn(cnode[p])

\* C38: a peer with the NoBan permission, and a manually added connection,
\* is never disconnected and never added to the discouragement filter
\* because of its misbehavior score, however high the score gets: the
\* SendMessages that finds such a peer marked for discouragement clears the
\* mark, marks no peer for disconnection and adds nothing to the filter
C38_ExemptNeverPunished ==
    [][\A p \in NodeIds :
          (Did("SendMessages", p) /\ Exempt(p) /\ m_should_discourage[p]) =>
              /\ ~last'.ret
              /\ ~m_should_discourage'[p]
              /\ fDisconnect' = fDisconnect
              /\ discouraged' = discouraged]_vars

\* SendMessages has run for a NoBan peer whose score is above the threshold
\* and that was marked for discouragement: it is neither marked for
\* disconnection nor is its address in the filter
C38_Witness ==
    /\ last.op = "SendMessages"
    /\ last.pre = TRUE
    /\ cnode[last.peer].noban
    /\ m_misbehavior_score[last.peer] > DISCOURAGEMENT_THRESHOLD
    /\ ~fDisconnect[last.peer]
    /\ cnode[last.peer].addr \notin discouraged

\* the same for a manually added connection
C38_Manual ==
    /\ last.op = "SendMessages"
    /\ last.pre = TRUE
    /\ IsManualConn(cnode[last.peer])
    /\ m_misbehavior_score[last.peer] > DISCOURAGEMENT_THRESHOLD
    /\ ~fDisconnect[last.peer]
    /\ cnode[last.peer].addr \notin discouraged


\* ---------------------------------------------------------------- C39
\* the list of high-bandwidth compact block peers never has more than 3
\* entries and names no peer twice
C39_AtMostThree ==
    /\ Len(lNodesAnnouncingHeaderAndIDs) <= 3
    /\ Cardinality(Range(lNodesAnnouncingHeaderAndIDs)) = Len(lNodesAnnouncingHeaderAndIDs)

\* the step added the inbound peer p to a full list that held exactly one
\* outbound peer
AddedInboundToFull(p) ==
    /\ Did("MaybeSetPeerAsAnnouncingHeaderAndIDs", p)
    /\ m_is_inbound(p)
    /\ p \notin Range(lNodesAnnouncingHeaderAndIDs)
    /\ p \in Range(lNodesAnnouncingHeaderAndIDs')
    /\ Len(lNodesAnnouncingHeaderAndIDs) = 3
    /\ Cardinality(OutboundHB(lNodesAnnouncingHeaderAndIDs)) = 1

\* C39: when an inbound peer is added to the list of high-bandwidth compact
\* block peers and the full list holds exactly one outbound peer, the peer
\* removed to make room is not that outbound peer: it is still in the list
C39_LastOutboundStays ==
    [][\A p \in NodeIds : AddedInboundToFull(p) =>
          /\ Len(lNodesAnnouncingHeaderAndIDs') = 3
          /\ \A i \in OutboundHB(lNodesAnnouncingHeaderAndIDs) :
                 lNodesAnnouncingHeaderAndIDs[i] \in Range(lNodesAnnouncingHeaderAndIDs')]_vars

\* an inbound peer was added to a full list whose front was its only
\* outbound peer: the outbound peer is in the list and the peer that was
\* second is not
C39_Witness ==
    /\ last.op = "MaybeSetPeerAsAnnouncingHeaderAndIDs"
    /\ last.ret
    /\ last.peer \in nodes /\ m_is_inbound(last.peer)
    /\ Len(last.pre) = 3
    /\ last.peer \notin Range(last.pre)
    /\ last.pre[1] \in nodes /\ ~m_is_inbound(last.pre[1])
    /\ Cardinality(OutboundHB(last.pre)) = 1
    /\ lNodesAnnouncingHeaderAndIDs = <<last.pre[1], last.pre[3], last.peer>>

\* the same with a front that is gone: the front is removed
C39_StaleFront ==
    /\ last.op = "MaybeSetPeerAsAnnouncingHeaderAndIDs"
    /\ last.ret
    /\ last.peer \in nodes /\ m_is_inbound(last.peer)
    /\ Len(last.pre) = 3
    /\ last.pre[1] \notin nodes
    /\ Cardinality(OutboundHB(last.pre)) = 1
    /\ lNodesAnnouncingHeaderAndIDs = Tail(last.pre) \o <<last.peer>>

====
